---- MODULE Spec2Model ----
(***************************************************************************)
(* The external-sync widgets of the knowledge-base configuration form:     *)
(* OutlookMailSync and the two revisions of OneDriveSync.  Each widget     *)
(* owns two pieces of React state (syncing, syncType), a status poller     *)
(* (useEffect + setInterval), the trigger and cancel clients, and the      *)
(* render-prop closure that reads the antd form (toggle, email, folder).   *)
(*                                                                         *)
(* A step of the model is one turn of the JavaScript event loop: a React   *)
(* lifecycle commit, a user event, a timer callback up to its first await, *)
(* or the continuation of an awaited request.                              *)
(***************************************************************************)
EXTENDS Integers, Sequences, FiniteSets, Bags, TLC

\* ------------------------------------------------------------- bounds
\* Requests of one widget awaiting their response at the same time.
MaxInflight == 2
\* Auto-trigger timeouts of one widget pending at the same time.
MaxTimeouts == 1
\* Knowledge bases the URL can name.
MaxKbs == 1

\* ------------------------------------------------------------- values
Null == "null"
\* Knowledge-base ids are 1..MaxKbs; 0 is the URL without an id, for which
\* searchParams.get('id') is null and !kbId holds.
NoKb == 0
Kbs == 1..MaxKbs
Providers == {"outlook", "onedrive"}

\* The three widget implementations of the repository.
Outlook == "OutlookMailSync"
OneDriveA == "OneDriveSync"
OneDriveB == "OneDriveSync.rev"
Widgets == {Outlook, OneDriveA, OneDriveB}

\* The sync_type tag each widget sends and compares syncType with.
Provider(w) == IF w = Outlook THEN "outlook" ELSE "onedrive"

\* Form text values are tuples of characters; the empty tuple is the empty
\* (or never filled) field, which JavaScript treats as falsy.
Empty == <<>>
NotAnEmail == <<"n", "o", "t", "-", "a", "n", "-", "e", "m", "a", "i", "l">>
ValidEmail == <<"a", "@", "b", ".", "c", "o", "m">>
Inbox == <<"I", "n", "b", "o", "x">>
\* A key that the request body does not carry.
Undefined == <<"undefined">>
Emails == {Empty, NotAnEmail, ValidEmail}
Folders == {Empty, Inbox}

\* The one error status checkSyncStatus tells apart.
NotFound == 404
\* The statuses a rejected request can carry; 0 is a rejection without a
\* response (network failure), whose error.response is undefined.
ErrorStatuses == {NotFound, 500, 0}

\* ------------------------------------------------------------ state
VARIABLES
  page,       \* the widgets rendered on the page
  kbId,       \* the knowledge-base id of the URL, NoKb when absent
  phase,      \* per widget: "new", "mounted", "disposed"
  syncing,    \* per widget: useState(false)
  syncType,   \* per widget: useState(null)
  enabled,    \* per widget: form value parser_config.<provider>_sync_enabled
  email,      \* per widget: form value parser_config.<provider>_email
  folder,     \* per widget: form value of the folder field
  intervals,  \* per widget: the kbId captured by each live setInterval
  timeouts,   \* per widget: the pending setTimeout auto-triggers, oldest first
  inflight,   \* per widget: bag of requests awaiting their response
  out         \* what the last step showed or logged, in order

vars == <<page, kbId, phase, syncing, syncType, enabled, email, folder,
          intervals, timeouts, inflight, out>>

\* The other components of the repository that share the role service: the
\* role page (useRoleList), the tenant user table with its bind-role modal
\* (UserTable) and the permission part of the dataset form (GeneralForm).
\* One of them is on the screen at a time; `out` is shared with the widgets.
VARIABLES
  screen,               \* the page that is open
  opened,               \* whether the page's mount effects have run
  loading,              \* useRoleList / GeneralForm: useState(false)
  roles,                \* useRoleList / GeneralForm: useState([]), a list of role ids
  pending,              \* the hook's and the form's asynchronous calls in progress
  userRolesMap,         \* UserTable: useState({}), user id -> list of role ids
  currentUser,          \* UserTable: the user of the bind-role modal, NoUser when closed
  roleActionInProgress, \* UserTable: useState(false)
  roleCalls,            \* UserTable: the handleAddRole/handleRemoveRole calls in progress
  type,                 \* GeneralForm: form value `type`
  roleId                \* GeneralForm: form value `roleId`

adminVars == <<screen, opened, loading, roles, pending, userRolesMap,
               currentUser, roleActionInProgress, roleCalls, type, roleId>>

\* The backend's view of the knowledge base and the bookkeeping of request
\* order, used where a property is about what the backend reports.
VARIABLES
  active,     \* the sync_type the backend reports as running, Null when none
  stale       \* per widget: status requests in flight that were sent before
              \* the last successful trigger of that widget

backendVars == <<active, stale>>

allvars == <<vars, adminVars, backendVars>>

\* --------------------------------------------------------- requests
StatusReq(kb) ==
  [op |-> "status", kb_id |-> kb, sync_type |-> Null, email |-> Undefined,
   folder_key |-> Null, folder |-> Undefined]

TriggerReq(kb, st, e, fk, f) ==
  [op |-> "trigger", kb_id |-> kb, sync_type |-> st, email |-> e,
   folder_key |-> fk, folder |-> f]

CancelReq(kb) ==
  [op |-> "cancel", kb_id |-> kb, sync_type |-> Null, email |-> Undefined,
   folder_key |-> Null, folder |-> Undefined]

Send(bag, req) == bag (+) SetToBag({req})

\* What `request` can answer to a status request: an envelope whose data is
\* the status payload, an envelope without data, or a rejection.
StatusOutcomes ==
  [kind : {"resolve"}, status : {200}, has_data : {TRUE},
   is_syncing : BOOLEAN, sync_type : Providers \cup {Null}]
  \cup {[kind |-> "resolve", status |-> 200, has_data |-> FALSE,
         is_syncing |-> FALSE, sync_type |-> Null]}
  \cup [kind : {"reject"}, status : ErrorStatuses,
        has_data : {FALSE}, is_syncing : {FALSE}, sync_type : {Null}]

\* What `request` can answer to a trigger or cancel request: an envelope with
\* a truthy or falsy data flag and an optional message, or a rejection.
CommandOutcomes ==
  [kind : {"resolve"}, status : {200}, data : BOOLEAN,
   message : {"", "backend message"}]
  \cup [kind : {"reject"}, status : ErrorStatuses,
        data : {FALSE}, message : {""}]

Outcomes(req) == IF req.op = "status" THEN StatusOutcomes ELSE CommandOutcomes

\* ---------------------------------------------------------- outputs
Show(ch, text) == [ch |-> ch, text |-> text]
LogError(text, status) == [ch |-> "console.error", text |-> text, status |-> status]

Shown(ch) == {i \in 1..Len(out) : out[i].ch = ch}

\* ------------------------------------------ the role components
\* No user: currentUser is null and the bind-role modal is closed.
NoUser == "null"

\* The state the role components are constructed with: every useState
\* initial value, no call in progress, the form's permission type "me".
AdminIdle ==
  /\ opened = FALSE
  /\ loading = FALSE
  /\ roles = <<>>
  /\ pending = EmptyBag
  /\ userRolesMap = <<>>
  /\ currentUser = NoUser
  /\ roleActionInProgress = FALSE
  /\ roleCalls = EmptyBag
  /\ type = "me"
  /\ roleId = ""

\* No sync is running on the backend and no request order is tracked.
BackendIdle ==
  /\ active = Null
  /\ stale = [w \in Widgets |-> 0]

\* ------------------------------------------------------------- Init
Init ==
  /\ page \in {{w} : w \in Widgets}
  /\ kbId \in Kbs \cup {NoKb}
  /\ phase = [w \in Widgets |-> "new"]
  /\ syncing = [w \in Widgets |-> FALSE]
  /\ syncType = [w \in Widgets |-> Null]
  /\ \E en \in BOOLEAN, e \in Emails, f \in Folders :
       /\ enabled = [w \in Widgets |-> w \in page /\ en]
       /\ email = [w \in Widgets |-> IF w \in page THEN e ELSE Empty]
       /\ folder = [w \in Widgets |->
                      IF w \in page /\ w # OneDriveB THEN f ELSE Empty]
  /\ intervals = [w \in Widgets |-> <<>>]
  /\ timeouts = [w \in Widgets |-> <<>>]
  /\ inflight = [w \in Widgets |-> EmptyBag]
  /\ out = <<>>
  /\ screen = "configuration"
  /\ AdminIdle
  /\ BackendIdle

\* ------------------------------------------------- checkSyncStatus
\* The synchronous part of checkSyncStatus, up to its await: the bag of
\* requests in flight afterwards and what was logged.
Outlook_checkSyncStatus(kb, bag) ==
  IF kb = NoKb
  THEN [inflight |-> bag,
        out |-> <<Show("console.log", "checkSyncStatus: kbId is missing, skipping")>>]
  ELSE [inflight |-> Send(bag, StatusReq(kb)), out |-> <<>>]

OneDriveA_checkSyncStatus(kb, bag) ==
  IF kb = NoKb
  THEN [inflight |-> bag,
        out |-> <<Show("console.log", "checkSyncStatus: kbId is missing, skipping")>>]
  ELSE [inflight |-> Send(bag, StatusReq(kb)), out |-> <<>>]

OneDriveB_checkSyncStatus(kb, bag) ==
  IF kb = NoKb
  THEN [inflight |-> bag, out |-> <<>>]
  ELSE [inflight |-> Send(bag, StatusReq(kb)), out |-> <<>>]

checkSyncStatus(w, kb, bag) ==
  CASE w = Outlook -> Outlook_checkSyncStatus(kb, bag)
    [] w = OneDriveA -> OneDriveA_checkSyncStatus(kb, bag)
    [] w = OneDriveB -> OneDriveB_checkSyncStatus(kb, bag)

\* Mutant: the catch block resets the state on every error, not only on 404.
Outlook_checkSyncStatusResume_AnyError(resp, s, t) ==
  IF resp.kind = "resolve"
  THEN IF resp.has_data /\ resp.is_syncing
       THEN [syncing |-> TRUE, syncType |-> resp.sync_type, out |-> <<>>]
       ELSE [syncing |-> FALSE, syncType |-> Null, out |-> <<>>]
  ELSE [syncing |-> FALSE, syncType |-> Null,
        out |-> <<LogError("Failed to check sync status:", resp.status)>>]

\* The continuation of checkSyncStatus once `request` has settled with resp,
\* the widget state being (s, t): the state afterwards and what was logged.
Outlook_checkSyncStatusResume(resp, s, t) ==
  IF resp.kind = "resolve"
  THEN IF resp.has_data /\ resp.is_syncing
       THEN [syncing |-> TRUE, syncType |-> resp.sync_type, out |-> <<>>]
       ELSE [syncing |-> FALSE, syncType |-> Null, out |-> <<>>]
  ELSE IF resp.status = NotFound
       THEN [syncing |-> FALSE, syncType |-> Null,
             out |-> <<LogError("Failed to check sync status:", resp.status)>>]
       ELSE [syncing |-> s, syncType |-> t,
             out |-> <<LogError("Failed to check sync status:", resp.status)>>]

\* Mutant: the widget stores its own provider instead of the reported one.
OneDriveA_checkSyncStatusResume_OwnType(resp, s, t) ==
  IF resp.kind = "resolve"
  THEN IF resp.has_data /\ resp.is_syncing
       THEN [syncing |-> TRUE, syncType |-> "onedrive",
             out |-> <<Show("console.log", "sync status result")>>]
       ELSE [syncing |-> FALSE, syncType |-> Null,
             out |-> <<Show("console.log", "sync status result")>>]
  ELSE [syncing |-> s, syncType |-> t,
        out |-> <<LogError("Failed to check sync status:", resp.status)>>]

OneDriveA_checkSyncStatusResume(resp, s, t) ==
  IF resp.kind = "resolve"
  THEN IF resp.has_data /\ resp.is_syncing
       THEN [syncing |-> TRUE, syncType |-> resp.sync_type,
             out |-> <<Show("console.log", "sync status result")>>]
       ELSE [syncing |-> FALSE, syncType |-> Null,
             out |-> <<Show("console.log", "sync status result")>>]
  ELSE [syncing |-> s, syncType |-> t,
        out |-> <<LogError("Failed to check sync status:", resp.status)>>]

\* Mutant: a report of "not syncing" is merged with the local state instead
\* of replacing it.
OneDriveB_checkSyncStatusResume_Merged(resp, s, t) ==
  IF resp.kind = "resolve"
  THEN IF resp.has_data /\ resp.is_syncing
       THEN [syncing |-> TRUE, syncType |-> resp.sync_type, out |-> <<>>]
       ELSE [syncing |-> s, syncType |-> t, out |-> <<>>]
  ELSE [syncing |-> s, syncType |-> t,
        out |-> <<LogError("Failed to check sync status:", resp.status)>>]

OneDriveB_checkSyncStatusResume(resp, s, t) ==
  IF resp.kind = "resolve"
  THEN IF resp.has_data /\ resp.is_syncing
       THEN [syncing |-> TRUE, syncType |-> resp.sync_type, out |-> <<>>]
       ELSE [syncing |-> FALSE, syncType |-> Null, out |-> <<>>]
  ELSE [syncing |-> s, syncType |-> t,
        out |-> <<LogError("Failed to check sync status:", resp.status)>>]

checkSyncStatusResume(w, resp, s, t) ==
  CASE w = Outlook -> Outlook_checkSyncStatusResume(resp, s, t)
    [] w = OneDriveA -> OneDriveA_checkSyncStatusResume(resp, s, t)
    [] w = OneDriveB -> OneDriveB_checkSyncStatusResume(resp, s, t)

\* ----------------------------------------------------- triggerSync
\* Mutant: triggerSync without its `if (!kbId) return`.
Outlook_triggerSync_NoKbGuard(kb, e, f, bag) ==
  [inflight |-> Send(bag, TriggerReq(kb, "outlook", e, "folder_name", f)),
   out |-> <<>>]

\* The synchronous part of triggerSync, up to its await.
Outlook_triggerSync(kb, e, f, bag) ==
  IF kb = NoKb
  THEN [inflight |-> bag, out |-> <<Show("console.error", "kbId is missing")>>]
  ELSE [inflight |-> Send(bag, TriggerReq(kb, "outlook", e, "folder_name", f)),
        out |-> <<>>]

OneDriveA_triggerSync(kb, e, f, bag) ==
  IF kb = NoKb
  THEN [inflight |-> bag,
        out |-> <<Show("console.log", "triggerSync called"),
                  Show("console.log", "kbId is empty, exiting")>>]
  ELSE [inflight |-> Send(bag, TriggerReq(kb, "onedrive", e, "folder_path", f)),
        out |-> <<Show("console.log", "triggerSync called")>>]

\* Mutant: a trigger is dropped while another one awaits its response.
OneDriveB_triggerSync_Dedup(kb, bag) ==
  IF kb = NoKb \/ \E r \in BagToSet(bag) : r.op = "trigger"
  THEN [inflight |-> bag, out |-> <<>>]
  ELSE [inflight |-> Send(bag, TriggerReq(kb, "onedrive", Undefined, Null, Undefined)),
        out |-> <<>>]

\* This revision's triggerSync takes no parameters: the body carries only
\* kb_id and sync_type.
OneDriveB_triggerSync(kb, bag) ==
  IF kb = NoKb
  THEN [inflight |-> bag, out |-> <<>>]
  ELSE [inflight |-> Send(bag, TriggerReq(kb, "onedrive", Undefined, Null, Undefined)),
        out |-> <<>>]

triggerSync(w, kb, e, f, bag) ==
  CASE w = Outlook -> Outlook_triggerSync(kb, e, f, bag)
    [] w = OneDriveA -> OneDriveA_triggerSync(kb, e, f, bag)
    [] w = OneDriveB -> OneDriveB_triggerSync(kb, bag)

\* Mutant: the backend's message is dropped.
MessageOr_FallbackOnly(resp, fallback) == fallback

\* res.message || t(fallback)
MessageOr(resp, fallback) == IF resp.message # "" THEN resp.message ELSE fallback

\* The continuation of triggerSync once `request` has settled with resp.
Outlook_triggerSyncResume(resp, s, t) ==
  IF resp.kind = "resolve"
  THEN IF resp.data
       THEN [syncing |-> TRUE, syncType |-> "outlook",
             out |-> <<Show("message.success", "syncStarted")>>]
       ELSE [syncing |-> s, syncType |-> t,
             out |-> <<Show("message.error", MessageOr(resp, "syncFailed"))>>]
  ELSE [syncing |-> s, syncType |-> t,
        out |-> <<LogError("Failed to trigger sync:", resp.status),
                  Show("message.error", "syncFailed")>>]

\* Mutant: the state is flipped on every answer, whatever res.data is.
OneDriveA_triggerSyncResume_AnyAnswer(resp, s, t) ==
  IF resp.kind = "resolve"
  THEN IF resp.data
       THEN [syncing |-> TRUE, syncType |-> "onedrive",
             out |-> <<Show("message.success", "syncStarted")>>]
       ELSE [syncing |-> TRUE, syncType |-> "onedrive",
             out |-> <<Show("message.error", MessageOr(resp, "syncFailed"))>>]
  ELSE [syncing |-> s, syncType |-> t,
        out |-> <<LogError("Failed to trigger sync:", resp.status),
                  Show("message.error", "syncFailed")>>]

OneDriveA_triggerSyncResume(resp, s, t) ==
  IF resp.kind = "resolve"
  THEN IF resp.data
       THEN [syncing |-> TRUE, syncType |-> "onedrive",
             out |-> <<Show("message.success", "syncStarted")>>]
       ELSE [syncing |-> s, syncType |-> t,
             out |-> <<Show("message.error", MessageOr(resp, "syncFailed"))>>]
  ELSE [syncing |-> s, syncType |-> t,
        out |-> <<LogError("Failed to trigger sync:", resp.status),
                  Show("message.error", "syncFailed")>>]

OneDriveB_triggerSyncResume(resp, s, t) ==
  IF resp.kind = "resolve"
  THEN IF resp.data
       THEN [syncing |-> TRUE, syncType |-> "onedrive",
             out |-> <<Show("message.success", "syncStarted")>>]
       ELSE [syncing |-> s, syncType |-> t,
             out |-> <<Show("message.error", MessageOr(resp, "syncFailed"))>>]
  ELSE [syncing |-> s, syncType |-> t,
        out |-> <<LogError("Failed to trigger sync:", resp.status),
                  Show("message.error", "syncFailed")>>]

triggerSyncResume(w, resp, s, t) ==
  CASE w = Outlook -> Outlook_triggerSyncResume(resp, s, t)
    [] w = OneDriveA -> OneDriveA_triggerSyncResume(resp, s, t)
    [] w = OneDriveB -> OneDriveB_triggerSyncResume(resp, s, t)

\* ------------------------------------------------------ cancelSync
\* The synchronous part of cancelSync, the same in the three components.
cancelSync(kb, bag) ==
  IF kb = NoKb
  THEN [inflight |-> bag, out |-> <<>>]
  ELSE [inflight |-> Send(bag, CancelReq(kb)), out |-> <<>>]

\* Mutant: a successful cancel clears the local state at once.
cancelSyncResume_ClearsState(resp, s, t) ==
  IF resp.kind = "resolve"
  THEN IF resp.data
       THEN [syncing |-> FALSE, syncType |-> Null,
             out |-> <<Show("message.success", "syncCancelled")>>]
       ELSE [syncing |-> s, syncType |-> t,
             out |-> <<Show("message.error", MessageOr(resp, "cancelFailed"))>>]
  ELSE [syncing |-> s, syncType |-> t,
        out |-> <<LogError("Failed to cancel sync:", resp.status),
                  Show("message.error", "cancelFailed")>>]

\* Mutant: cancelSync without its try/catch, so that a rejection of the
\* request leaves the function as an unhandled promise rejection.
cancelSyncResume_NoCatch(resp, s, t) ==
  IF resp.kind = "resolve"
  THEN IF resp.data
       THEN [syncing |-> s, syncType |-> t,
             out |-> <<Show("message.success", "syncCancelled")>>]
       ELSE [syncing |-> s, syncType |-> t,
             out |-> <<Show("message.error", MessageOr(resp, "cancelFailed"))>>]
  ELSE [syncing |-> s, syncType |-> t,
        out |-> <<Show("unhandledrejection", "cancel_sync")>>]

\* Mutant: a successful cancel clears the syncing flag and leaves the type.
cancelSyncResume_KeepsType(resp, s, t) ==
  IF resp.kind = "resolve"
  THEN IF resp.data
       THEN [syncing |-> FALSE, syncType |-> t,
             out |-> <<Show("message.success", "syncCancelled")>>]
       ELSE [syncing |-> s, syncType |-> t,
             out |-> <<Show("message.error", MessageOr(resp, "cancelFailed"))>>]
  ELSE [syncing |-> s, syncType |-> t,
        out |-> <<LogError("Failed to cancel sync:", resp.status),
                  Show("message.error", "cancelFailed")>>]

\* The continuation of cancelSync: it never touches syncing or syncType.
cancelSyncResume(resp, s, t) ==
  IF resp.kind = "resolve"
  THEN IF resp.data
       THEN [syncing |-> s, syncType |-> t,
             out |-> <<Show("message.success", "syncCancelled")>>]
       ELSE [syncing |-> s, syncType |-> t,
             out |-> <<Show("message.error", MessageOr(resp, "cancelFailed"))>>]
  ELSE [syncing |-> s, syncType |-> t,
        out |-> <<LogError("Failed to cancel sync:", resp.status),
                  Show("message.error", "cancelFailed")>>]

\* ------------------------------------------------------- useEffect
\* Mutant: the effect without its `if (!kbId) return`.
useEffectRun_NoGuard(w, kb, ints, bag) ==
  LET c == checkSyncStatus(w, kb, bag)
  IN  [intervals |-> Append(ints, kb), inflight |-> c.inflight, out |-> c.out]

\* Mutant: the effect makes the initial check but sets no interval.
useEffectRun_NoInterval(w, kb, ints, bag) ==
  IF kb = NoKb
  THEN [intervals |-> ints, inflight |-> bag, out |-> <<>>]
  ELSE LET c == checkSyncStatus(w, kb, bag)
       IN  [intervals |-> ints, inflight |-> c.inflight, out |-> c.out]

\* The effect of the poller, run with kbId = kb: the initial check and the
\* interval, whose callback is the checkSyncStatus of that render.
useEffectRun(w, kb, ints, bag) ==
  IF kb = NoKb
  THEN [intervals |-> ints, inflight |-> bag, out |-> <<>>]
  ELSE LET c == checkSyncStatus(w, kb, bag)
       IN  [intervals |-> Append(ints, kb), inflight |-> c.inflight, out |-> c.out]

\* Mutant: an effect that returns no cleanup, so the interval is never cleared.
useEffectCleanup_NoClear(kb, ints) == ints

\* The cleanup the effect returned when it ran with kbId = kb: it clears the
\* interval of that run, and there is none when the run returned early.
useEffectCleanup(kb, ints) ==
  IF kb = NoKb THEN ints ELSE SubSeq(ints, 1, Len(ints) - 1)

\* ---------------------------------------------------------- render
\* Conditions of the render prop, read from the form and the widget state.
OwnSync(w) == syncing[w] /\ syncType[w] = Provider(w)
FieldsRendered(w) == phase[w] = "mounted" /\ enabled[w]
CancelRendered(w) == FieldsRendered(w) /\ OwnSync(w)
\* Mutant: 'Sync Now' is rendered next to 'Cancel' instead of in its place.
SyncNowRendered_Always(w) == FieldsRendered(w)
SyncNowRendered(w) == FieldsRendered(w) /\ ~OwnSync(w)
SpinnerRendered(w) == phase[w] = "mounted" /\ OwnSync(w)

\* The widget state machine of the design, as the render shows it.
View(w) ==
  IF ~enabled[w] THEN "Disabled"
  ELSE IF OwnSync(w) THEN "Enabled-Syncing" ELSE "Enabled-Idle"

\* ------------------------------------------------ form validation
Count(s, c) == Cardinality({i \in 1..Len(s) : s[i] = c})

\* No empty label: no dot first, last, or next to another dot.
DotsOk(s) ==
  /\ s # <<>>
  /\ s[1] # "." /\ s[Len(s)] # "."
  /\ \A i \in 1..(Len(s) - 1) : ~(s[i] = "." /\ s[i + 1] = ".")

\* The rule {type: 'email'}: an empty value passes (the required rule is the
\* one that rejects it); otherwise local@domain with a dotted domain whose
\* last label has at least two characters.
EmailTypeOk(e) ==
  \/ e = Empty
  \/ /\ Count(e, "@") = 1
     /\ LET at == CHOOSE i \in 1..Len(e) : e[i] = "@"
            local == SubSeq(e, 1, at - 1)
            domain == SubSeq(e, at + 1, Len(e))
        IN  /\ DotsOk(local)
            /\ DotsOk(domain)
            /\ Count(domain, ".") >= 1
            /\ domain[Len(domain) - 1] # "."

\* The rule {required: syncEnabled}.
RequiredOk(v, syncEnabled) == ~syncEnabled \/ v # Empty

EmailFieldOk(w) == EmailTypeOk(email[w]) /\ RequiredOk(email[w], enabled[w])

\* ------------------------------------------------ handleSyncChange
\* Mutant: declining the prompt does not put the toggle back.
Outlook_handleSyncChange_NoRevert(checked, answer, s, t, kb, bag) ==
  IF ~checked /\ s /\ t = "outlook"
  THEN IF answer
       THEN LET c == cancelSync(kb, bag)
            IN  [enabled |-> checked, inflight |-> c.inflight,
                 out |-> <<Show("confirm", "confirmCancelSync")>> \o c.out]
       ELSE [enabled |-> checked, inflight |-> bag,
             out |-> <<Show("confirm", "confirmCancelSync")>>]
  ELSE [enabled |-> checked, inflight |-> bag, out |-> <<>>]

\* handleSyncChange(checked), called by the Switch after the form store took
\* the new value.  answer is what the user answers to window.confirm, when it
\* is shown; (s, t) the widget state and kb the kbId of the current render.
Outlook_handleSyncChange(checked, answer, s, t, kb, bag) ==
  IF ~checked /\ s /\ t = "outlook"
  THEN IF answer
       THEN LET c == cancelSync(kb, bag)
            IN  [enabled |-> checked, inflight |-> c.inflight,
                 out |-> <<Show("confirm", "confirmCancelSync")>> \o c.out]
       ELSE [enabled |-> TRUE, inflight |-> bag,
             out |-> <<Show("confirm", "confirmCancelSync")>>]
  ELSE [enabled |-> checked, inflight |-> bag, out |-> <<>>]

\* Mutant: the prompt is shown for a sync of any provider.
OneDriveA_handleSyncChange_AnySync(checked, answer, syncEnabled, s, t, kb, e, bag, tos) ==
  IF ~checked /\ s
  THEN IF answer
       THEN LET c == cancelSync(kb, bag)
            IN  [enabled |-> checked, inflight |-> c.inflight, timeouts |-> tos,
                 out |-> <<Show("confirm", "confirmCancelSync")>> \o c.out]
       ELSE [enabled |-> TRUE, inflight |-> bag, timeouts |-> tos,
             out |-> <<Show("confirm", "confirmCancelSync")>>]
  ELSE IF checked /\ ~syncEnabled /\ e # Empty
       THEN [enabled |-> checked, inflight |-> bag,
             timeouts |-> Append(tos, [kb |-> kb, email |-> e]), out |-> <<>>]
       ELSE [enabled |-> checked, inflight |-> bag, timeouts |-> tos, out |-> <<>>]

\* The OneDrive revisions add the auto-trigger: syncEnabled is the toggle the
\* render read, e the email in the form, tos the pending timeouts.
OneDriveA_handleSyncChange(checked, answer, syncEnabled, s, t, kb, e, bag, tos) ==
  IF ~checked /\ s /\ t = "onedrive"
  THEN IF answer
       THEN LET c == cancelSync(kb, bag)
            IN  [enabled |-> checked, inflight |-> c.inflight, timeouts |-> tos,
                 out |-> <<Show("confirm", "confirmCancelSync")>> \o c.out]
       ELSE [enabled |-> TRUE, inflight |-> bag, timeouts |-> tos,
             out |-> <<Show("confirm", "confirmCancelSync")>>]
  ELSE IF checked /\ ~syncEnabled /\ e # Empty
       THEN [enabled |-> checked, inflight |-> bag,
             timeouts |-> Append(tos, [kb |-> kb, email |-> e]), out |-> <<>>]
       ELSE [enabled |-> checked, inflight |-> bag, timeouts |-> tos, out |-> <<>>]

\* Mutant: the auto-trigger is scheduled without looking at the email.
OneDriveB_handleSyncChange_NoEmailCheck(checked, answer, syncEnabled, s, t, kb, e, bag, tos) ==
  IF ~checked /\ s /\ t = "onedrive"
  THEN IF answer
       THEN LET c == cancelSync(kb, bag)
            IN  [enabled |-> checked, inflight |-> c.inflight, timeouts |-> tos,
                 out |-> <<Show("confirm", "confirmCancelSync")>> \o c.out]
       ELSE [enabled |-> TRUE, inflight |-> bag, timeouts |-> tos,
             out |-> <<Show("confirm", "confirmCancelSync")>>]
  ELSE IF checked /\ ~syncEnabled
       THEN [enabled |-> checked, inflight |-> bag,
             timeouts |-> Append(tos, [kb |-> kb, email |-> Undefined]), out |-> <<>>]
       ELSE [enabled |-> checked, inflight |-> bag, timeouts |-> tos, out |-> <<>>]

OneDriveB_handleSyncChange(checked, answer, syncEnabled, s, t, kb, e, bag, tos) ==
  IF ~checked /\ s /\ t = "onedrive"
  THEN IF answer
       THEN LET c == cancelSync(kb, bag)
            IN  [enabled |-> checked, inflight |-> c.inflight, timeouts |-> tos,
                 out |-> <<Show("confirm", "confirmCancelSync")>> \o c.out]
       ELSE [enabled |-> TRUE, inflight |-> bag, timeouts |-> tos,
             out |-> <<Show("confirm", "confirmCancelSync")>>]
  ELSE IF checked /\ ~syncEnabled /\ e # Empty
       THEN [enabled |-> checked, inflight |-> bag,
             timeouts |-> Append(tos, [kb |-> kb, email |-> Undefined]), out |-> <<>>]
       ELSE [enabled |-> checked, inflight |-> bag, timeouts |-> tos, out |-> <<>>]

handleSyncChange(w, checked, answer) ==
  CASE w = Outlook ->
         [timeouts |-> timeouts[w]] @@
         Outlook_handleSyncChange(checked, answer, syncing[w], syncType[w],
                                  kbId, inflight[w])
    [] w = OneDriveA ->
         OneDriveA_handleSyncChange(checked, answer, enabled[w], syncing[w],
                                    syncType[w], kbId, email[w], inflight[w],
                                    timeouts[w])
    [] w = OneDriveB ->
         OneDriveB_handleSyncChange(checked, answer, enabled[w], syncing[w],
                                    syncType[w], kbId, email[w], inflight[w],
                                    timeouts[w])

\* ------------------------------------------------- button handlers
\* Mutant: the two form values are handed over in the wrong order.
Outlook_SyncNowOnClick_Swapped(kb, e, f, bag) == Outlook_triggerSync(kb, f, e, bag)

\* onClick of 'Sync Now': the form values are read and handed to triggerSync.
Outlook_SyncNowOnClick(kb, e, f, bag) == Outlook_triggerSync(kb, e, f, bag)

OneDriveA_SyncNowOnClick(kb, e, f, bag) ==
  LET c == OneDriveA_triggerSync(kb, e, f, bag)
  IN  [inflight |-> c.inflight,
       out |-> <<Show("console.log", "OneDrive sync button clicked")>> \o c.out]

OneDriveB_SyncNowOnClick(kb, bag) == OneDriveB_triggerSync(kb, bag)

SyncNowOnClick(w) ==
  CASE w = Outlook -> Outlook_SyncNowOnClick(kbId, email[w], folder[w], inflight[w])
    [] w = OneDriveA -> OneDriveA_SyncNowOnClick(kbId, email[w], folder[w], inflight[w])
    [] w = OneDriveB -> OneDriveB_SyncNowOnClick(kbId, inflight[w])

\* The callback of the auto-trigger timeout tm: revision A reads the folder
\* path when it fires and passes the email read when it was scheduled.
OneDriveA_autoTrigger(tm, f, bag) == OneDriveA_triggerSync(tm.kb, tm.email, f, bag)

OneDriveB_autoTrigger(tm, bag) == OneDriveB_triggerSync(tm.kb, bag)

autoTrigger(w, tm) ==
  CASE w = OneDriveA -> OneDriveA_autoTrigger(tm, folder[w], inflight[w])
    [] w = OneDriveB -> OneDriveB_autoTrigger(tm, inflight[w])

\* The continuation of the call that sent req, settled with resp.
Resume(w, req, resp) ==
  CASE req.op = "status" -> checkSyncStatusResume(w, resp, syncing[w], syncType[w])
    [] req.op = "trigger" -> triggerSyncResume(w, resp, syncing[w], syncType[w])
    [] req.op = "cancel" -> cancelSyncResume(resp, syncing[w], syncType[w])

Fits(bag) == BagCardinality(bag) <= MaxInflight

\* ---------------------------------------------------------- actions
\* React mounts the widget: the effect runs with the kbId of the URL.
Mount(w) ==
  /\ phase[w] = "new"
  /\ LET r == useEffectRun(w, kbId, intervals[w], inflight[w])
     IN  /\ Fits(r.inflight)
         /\ phase' = [phase EXCEPT ![w] = "mounted"]
         /\ intervals' = [intervals EXCEPT ![w] = r.intervals]
         /\ inflight' = [inflight EXCEPT ![w] = r.inflight]
         /\ out' = r.out
  /\ UNCHANGED <<page, kbId, syncing, syncType, enabled, email, folder, timeouts>>

\* React unmounts the widget: the cleanup of the last effect run.
Unmount(w) ==
  /\ phase[w] = "mounted"
  /\ phase' = [phase EXCEPT ![w] = "disposed"]
  /\ intervals' = [intervals EXCEPT ![w] = useEffectCleanup(kbId, @)]
  /\ out' = <<>>
  /\ UNCHANGED <<page, kbId, syncing, syncType, enabled, email, folder, timeouts,
                 inflight>>

\* The id of the URL changes under a mounted widget: the dependency [kbId]
\* makes React run the old cleanup and then the effect again.
KbChange(w, kb) ==
  /\ phase[w] = "mounted"
  /\ kb # kbId
  /\ LET r == useEffectRun(w, kb, useEffectCleanup(kbId, intervals[w]), inflight[w])
     IN  /\ Fits(r.inflight)
         /\ kbId' = kb
         /\ intervals' = [intervals EXCEPT ![w] = r.intervals]
         /\ inflight' = [inflight EXCEPT ![w] = r.inflight]
         /\ out' = r.out
  /\ UNCHANGED <<page, phase, syncing, syncType, enabled, email, folder, timeouts>>

\* A setInterval callback fires: checkSyncStatus of the render that set it.
Tick(w) ==
  /\ \E i \in 1..Len(intervals[w]) :
       LET c == checkSyncStatus(w, intervals[w][i], inflight[w])
       IN  /\ Fits(c.inflight)
           /\ inflight' = [inflight EXCEPT ![w] = c.inflight]
           /\ out' = c.out
  /\ UNCHANGED <<page, kbId, phase, syncing, syncType, enabled, email, folder,
                 intervals, timeouts>>

\* The user flips the Switch: the form store takes the new value, then
\* handleSyncChange runs; answer is the user's answer to the prompt, if any.
Toggle(w, answer) ==
  /\ phase[w] = "mounted"
  /\ LET h == handleSyncChange(w, ~enabled[w], answer)
     IN  /\ Fits(h.inflight)
         /\ Len(h.timeouts) <= MaxTimeouts
         /\ enabled' = [enabled EXCEPT ![w] = h.enabled]
         /\ inflight' = [inflight EXCEPT ![w] = h.inflight]
         /\ timeouts' = [timeouts EXCEPT ![w] = h.timeouts]
         /\ out' = h.out
  /\ UNCHANGED <<page, kbId, phase, syncing, syncType, email, folder, intervals>>

\* The user clicks 'Sync Now'.
SyncNowClick(w) ==
  /\ SyncNowRendered(w)
  /\ LET c == SyncNowOnClick(w)
     IN  /\ Fits(c.inflight)
         /\ inflight' = [inflight EXCEPT ![w] = c.inflight]
         /\ out' = c.out
  /\ UNCHANGED <<page, kbId, phase, syncing, syncType, enabled, email, folder,
                 intervals, timeouts>>

\* The user clicks 'Cancel'.
CancelClick(w) ==
  /\ CancelRendered(w)
  /\ LET c == cancelSync(kbId, inflight[w])
     IN  /\ Fits(c.inflight)
         /\ inflight' = [inflight EXCEPT ![w] = c.inflight]
         /\ out' = c.out
  /\ UNCHANGED <<page, kbId, phase, syncing, syncType, enabled, email, folder,
                 intervals, timeouts>>

\* The oldest auto-trigger timeout fires; nothing ever clears it.
AutoTriggerFire(w) ==
  /\ timeouts[w] # <<>>
  /\ LET c == autoTrigger(w, Head(timeouts[w]))
     IN  /\ Fits(c.inflight)
         /\ timeouts' = [timeouts EXCEPT ![w] = Tail(@)]
         /\ inflight' = [inflight EXCEPT ![w] = c.inflight]
         /\ out' = c.out
  /\ UNCHANGED <<page, kbId, phase, syncing, syncType, enabled, email, folder,
                 intervals>>

\* A request settles and the awaiting call continues; the continuation calls
\* the state setters whatever has happened to the widget since the call.
Deliver(w, req, resp) ==
  /\ BagIn(req, inflight[w])
  /\ resp \in Outcomes(req)
  /\ LET r == Resume(w, req, resp)
     IN  /\ syncing' = [syncing EXCEPT ![w] = r.syncing]
         /\ syncType' = [syncType EXCEPT ![w] = r.syncType]
         /\ out' = r.out
  /\ inflight' = [inflight EXCEPT ![w] = @ (-) SetToBag({req})]
  /\ UNCHANGED <<page, kbId, phase, enabled, email, folder, intervals, timeouts>>

\* The user edits the email field, rendered while the toggle is on.
EditEmail(w, e) ==
  /\ FieldsRendered(w)
  /\ e # email[w]
  /\ email' = [email EXCEPT ![w] = e]
  /\ out' = <<>>
  /\ UNCHANGED <<page, kbId, phase, syncing, syncType, enabled, folder, intervals,
                 timeouts, inflight>>

\* The user edits the folder field; revision B of OneDriveSync has none.
EditFolder(w, f) ==
  /\ FieldsRendered(w)
  /\ w # OneDriveB
  /\ f # folder[w]
  /\ folder' = [folder EXCEPT ![w] = f]
  /\ out' = <<>>
  /\ UNCHANGED <<page, kbId, phase, syncing, syncType, enabled, email, intervals,
                 timeouts, inflight>>

Requests == UNION {BagToSet(inflight[w]) : w \in Widgets}

Next ==
  \/ /\ \E w \in page : Mount(w)
     /\ UNCHANGED <<adminVars, backendVars>>
  \/ /\ \E w \in page : Unmount(w)
     /\ UNCHANGED <<adminVars, backendVars>>
  \/ /\ \E w \in page : \E kb \in Kbs \cup {NoKb} : KbChange(w, kb)
     /\ UNCHANGED <<adminVars, backendVars>>
  \/ /\ \E w \in page : Tick(w)
     /\ UNCHANGED <<adminVars, backendVars>>
  \/ /\ \E w \in page : \E answer \in BOOLEAN : Toggle(w, answer)
     /\ UNCHANGED <<adminVars, backendVars>>
  \/ /\ \E w \in page : SyncNowClick(w)
     /\ UNCHANGED <<adminVars, backendVars>>
  \/ /\ \E w \in page : CancelClick(w)
     /\ UNCHANGED <<adminVars, backendVars>>
  \/ /\ \E w \in page : AutoTriggerFire(w)
     /\ UNCHANGED <<adminVars, backendVars>>
  \/ /\ \E w \in page : \E req \in Requests : \E resp \in Outcomes(req) :
          Deliver(w, req, resp)
     /\ UNCHANGED <<adminVars, backendVars>>
  \/ /\ \E w \in page : \E e \in Emails : EditEmail(w, e)
     /\ UNCHANGED <<adminVars, backendVars>>
  \/ /\ \E w \in page : \E f \in Folders : EditFolder(w, f)
     /\ UNCHANGED <<adminVars, backendVars>>

Spec == Init /\ [][Next]_allvars

\* ------------------------------------------------ counting requests
\* The requests of kind op in a bag, and those a step adds for widget w.
OpCount(bag, op) ==
  BagCardinality([r \in {x \in BagToSet(bag) : x.op = op} |-> bag[r]])

Added(w, op) == OpCount(inflight'[w], op) - OpCount(inflight[w], op)

\* The step sends no request of widget w: no request has more copies after it.
NoNewRequest(w) ==
  \A r \in BagToSet(inflight'[w]) : CopiesIn(r, inflight'[w]) <= CopiesIn(r, inflight[w])

SameSyncState(w) == syncing'[w] = syncing[w] /\ syncType'[w] = syncType[w]

C2_OneStatusPerTick ==
  [][\A w \in Widgets :
       /\ Tick(w) => /\ phase[w] = "mounted" /\ kbId # NoKb
                     /\ Added(w, "status") = 1
                     /\ inflight'[w] = Send(inflight[w], StatusReq(kbId))
       /\ (Mount(w) /\ kbId # NoKb) => Added(w, "status") = 1
       /\ phase[w] = "disposed" => Added(w, "status") <= 0]_vars

\* The initial check and a tick's check are both awaiting their response.
C2_Witness ==
  \E w \in Widgets :
    /\ phase[w] = "mounted" /\ kbId # NoKb
    /\ CopiesIn(StatusReq(kbId), inflight[w]) = 2

\* ---------------------------------------------------------------- C3
\* C3 as stated: once a widget is disposed, no step changes its syncing or
\* syncType.
C3_NoWriteAfterTeardown ==
  [][\A w \in Widgets : phase[w] = "disposed" => SameSyncState(w)]_vars

\* ---------------------------------------------------------------- C4
\* C4: when a widget that is mounted with its toggle on processes the status
\* response {is_syncing: true, sync_type: st}, it shows Enabled-Syncing with
\* the Cancel button if st is its own provider, and Enabled-Idle with the
\* 'Sync Now' button and no spinner if st is the other provider.
C4_StatusSplitsByProvider ==
  [][\A w \in Widgets : \A st \in Providers : \A kb \in Kbs :
       ( /\ phase[w] = "mounted" /\ enabled[w]
         /\ Deliver(w, StatusReq(kb),
                    [kind |-> "resolve", status |-> 200, has_data |-> TRUE,
                     is_syncing |-> TRUE, sync_type |-> st]) )
       => IF st = Provider(w)
          THEN /\ View(w)' = "Enabled-Syncing"
               /\ CancelRendered(w)' /\ ~SyncNowRendered(w)'
          ELSE /\ View(w)' = "Enabled-Idle"
               /\ SyncNowRendered(w)' /\ ~CancelRendered(w)'
               /\ ~SpinnerRendered(w)']_vars

\* A OneDrive widget, toggle on, holds the status "outlook is syncing" and
\* shows 'Sync Now'.
C4_Witness ==
  \E w \in Widgets :
    /\ Provider(w) = "onedrive"
    /\ phase[w] = "mounted" /\ enabled[w]
    /\ syncing[w] /\ syncType[w] = "outlook"
    /\ SyncNowRendered(w)

\* ---------------------------------------------------------------- C5
ConfirmShown == Shown("confirm") # {}

\* C5 as stated: switching the toggle off in Enabled-Syncing shows the
\* prompt; declining keeps the toggle on and sends no cancel request;
\* accepting sends exactly one cancel request.
C5_ConfirmGuardsCancel ==
  [][\A w \in Widgets :
       (phase[w] = "mounted" /\ View(w) = "Enabled-Syncing") =>
         /\ Toggle(w, FALSE) =>
              ConfirmShown' /\ enabled'[w] /\ Added(w, "cancel") = 0
         /\ Toggle(w, TRUE) =>
              ConfirmShown' /\ Added(w, "cancel") = 1]_vars

\* C5 amended: accepting sends exactly one cancel request when kb_id is
\* present and none when it is absent, and the toggle goes off either way;
\* the prompt and the declining case are as stated.
C5_ConfirmGuardsCancelWithKb ==
  [][\A w \in Widgets :
       (phase[w] = "mounted" /\ View(w) = "Enabled-Syncing") =>
         /\ Toggle(w, FALSE) =>
              /\ ConfirmShown' /\ enabled'[w]
              /\ inflight'[w] = inflight[w]
         /\ Toggle(w, TRUE) =>
              /\ ConfirmShown' /\ ~enabled'[w]
              /\ inflight'[w] = IF kbId = NoKb THEN inflight[w]
                                ELSE Send(inflight[w], CancelReq(kbId))]_vars

\* The prompt was accepted in Enabled-Syncing: the toggle is off, the sync
\* still shown as running, and the cancel request is awaiting its response.
C5_Witness ==
  \E w \in Widgets :
    /\ phase[w] = "mounted" /\ OwnSync(w) /\ ~enabled[w]
    /\ out = <<Show("confirm", "confirmCancelSync")>>
    /\ kbId # NoKb /\ BagIn(CancelReq(kbId), inflight[w])

\* ---------------------------------------------------------------- C6
\* C6 as stated: a click on 'Sync Now' while the email field fails the
\* {type: 'email'} rule sends no trigger request.
C6_InvalidEmailSendsNothing ==
  [][\A w \in Widgets :
       (SyncNowClick(w) /\ ~EmailTypeOk(email[w])) => Added(w, "trigger") = 0]_vars

\* ---------------------------------------------------------------- C7
TriggerResponses(ok) ==
  {resp \in CommandOutcomes : (resp.kind = "resolve" /\ resp.data) = ok}

\* C7 as stated: every completed triggerSync call of the Outlook widget,
\* started by a click with kb_id present, leaves it with syncing = true and
\* syncType = 'outlook'.
C7_ClickAlwaysEndsSyncing ==
  [][\A req \in BagToSet(inflight[Outlook]) : \A resp \in CommandOutcomes :
       (req.op = "trigger" /\ Deliver(Outlook, req, resp)) =>
         syncing'[Outlook] /\ syncType'[Outlook] = "outlook"]_vars

\* C7 amended: the click sends exactly one trigger request, whose body is
\* {kb_id, sync_type: "outlook", email: E, folder_name: F} with E and F the
\* form values; the widget goes to syncing = true, syncType = 'outlook' when
\* that request is answered with truthy data, and keeps its state when the
\* request fails.
C7_ClickSendsOneTrigger ==
  [][/\ (SyncNowClick(Outlook) /\ kbId # NoKb) =>
          /\ inflight'[Outlook] =
               Send(inflight[Outlook],
                    TriggerReq(kbId, "outlook", email[Outlook], "folder_name",
                               folder[Outlook]))
          /\ Added(Outlook, "trigger") = 1
          /\ SameSyncState(Outlook)
     /\ \A req \in BagToSet(inflight[Outlook]) :
          req.op = "trigger" =>
            /\ \A resp \in TriggerResponses(TRUE) :
                 Deliver(Outlook, req, resp) =>
                   /\ syncing'[Outlook] /\ syncType'[Outlook] = "outlook"
                   /\ out' = <<Show("message.success", "syncStarted")>>
            /\ \A resp \in TriggerResponses(FALSE) :
                 Deliver(Outlook, req, resp) => SameSyncState(Outlook)]_vars

\* The trigger request for a@b.com / Inbox was answered with truthy data.
C7_Witness ==
  /\ phase[Outlook] = "mounted" /\ enabled[Outlook]
  /\ email[Outlook] = ValidEmail /\ folder[Outlook] = Inbox
  /\ syncing[Outlook] /\ syncType[Outlook] = "outlook"
  /\ out = <<Show("message.success", "syncStarted")>>

\* ---------------------------------------------------------------- C8
NotificationShown == Shown("message.error") \cup Shown("message.success") # {}

StatusRejections(st) ==
  {resp \in StatusOutcomes : resp.kind = "reject" /\ resp.status = st}

\* C8 as stated: in every widget a status request rejected with 404 leaves
\* syncing = false, syncType = null and shows no notification.
C8_NotFoundMeansIdle ==
  [][\A w \in Widgets : \A req \in BagToSet(inflight[w]) :
       \A resp \in StatusRejections(NotFound) :
         (req.op = "status" /\ Deliver(w, req, resp)) =>
           /\ ~syncing'[w] /\ syncType'[w] = Null
           /\ ~NotificationShown']_vars

\* ---------------------------------------------------------------- C9
\* C9: a status request rejected with anything but 404 leaves syncing and
\* syncType as they were and shows no notification.
C9_OtherErrorsKeepState ==
  [][\A w \in Widgets : \A req \in BagToSet(inflight[w]) :
       \A st \in ErrorStatuses \ {NotFound} : \A resp \in StatusRejections(st) :
         (req.op = "status" /\ Deliver(w, req, resp)) =>
           /\ SameSyncState(w)
           /\ ~NotificationShown']_vars

\* A poll failed with status 500 while the widget showed a running sync.
C9_Witness ==
  \E w \in Widgets :
    /\ syncing[w] /\ syncType[w] = Provider(w)
    /\ out = <<LogError("Failed to check sync status:", 500)>>

\* --------------------------------------------------------------- C10
\* C10: a trigger request that is rejected or answered with falsy data
\* shows exactly one error notification, no success notification, and
\* leaves syncing/syncType unchanged; no step of triggerSync other than the
\* continuation on truthy data changes them.
C10_FailedTriggerKeepsState ==
  [][\A w \in Widgets :
       /\ \A req \in BagToSet(inflight[w]) :
            req.op = "trigger" =>
              /\ \A resp \in TriggerResponses(FALSE) :
                   Deliver(w, req, resp) =>
                     /\ SameSyncState(w)
                     /\ Cardinality(Shown("message.error")') = 1
                     /\ Shown("message.success")' = {}
              /\ \A resp \in TriggerResponses(TRUE) :
                   Deliver(w, req, resp) =>
                     syncing'[w] /\ syncType'[w] = Provider(w)
       /\ (SyncNowClick(w) \/ AutoTriggerFire(w)) => SameSyncState(w)]_vars

\* A trigger failed on an idle widget: the error is shown, the widget idle.
C10_Witness ==
  \E w \in Widgets :
    /\ ~syncing[w] /\ syncType[w] = Null
    /\ Shown("message.error") # {}
    /\ \E i \in Shown("message.error") : out[i].text = "syncFailed"

\* --------------------------------------------------------------- C11
CancelResponses(ok) ==
  {resp \in CommandOutcomes : (resp.kind = "resolve" /\ resp.data) = ok}

\* C11: no step of cancelSync (the click, the accepted prompt, the
\* continuation on any answer) changes syncing or syncType, so the widget
\* shows the same view after a cancel response as before it; a successful
\* cancel shows exactly one confirmation and no error, a failed one exactly
\* one error and no confirmation; and a widget that shows its own sync as
\* running leaves that state only in a step that consumes a status response.
C11_CancelKeepsState ==
  [][\A w \in Widgets :
       /\ \A req \in BagToSet(inflight[w]) :
            req.op = "cancel" =>
              /\ \A resp \in CancelResponses(TRUE) :
                   Deliver(w, req, resp) =>
                     /\ SameSyncState(w) /\ View(w)' = View(w)
                     /\ out' = <<Show("message.success", "syncCancelled")>>
              /\ \A resp \in CancelResponses(FALSE) :
                   Deliver(w, req, resp) =>
                     /\ SameSyncState(w) /\ View(w)' = View(w)
                     /\ Cardinality(Shown("message.error")') = 1
                     /\ Shown("message.success")' = {}
       /\ (CancelClick(w) \/ Toggle(w, TRUE) \/ Toggle(w, FALSE)) => SameSyncState(w)
       /\ (OwnSync(w) /\ ~OwnSync(w)') => Added(w, "status") = -1]_vars

\* The cancel was confirmed while the widget still shows Enabled-Syncing.
C11_Witness ==
  \E w \in Widgets :
    /\ phase[w] = "mounted" /\ View(w) = "Enabled-Syncing"
    /\ out = <<Show("message.success", "syncCancelled")>>

\* --------------------------------------------------------------- C12
StatusResolutions == {resp \in StatusOutcomes : resp.kind = "resolve"}

\* C12: a status request that resolves leaves (syncing, syncType) =
\* (true, response.sync_type) when the response carries a truthy is_syncing
\* and (false, null) otherwise, whatever the state was before.
C12_StatusResponseWins ==
  [][\A w \in Widgets : \A req \in BagToSet(inflight[w]) :
       \A resp \in StatusResolutions :
         (req.op = "status" /\ Deliver(w, req, resp)) =>
           IF resp.has_data /\ resp.is_syncing
           THEN syncing'[w] /\ syncType'[w] = resp.sync_type
           ELSE ~syncing'[w] /\ syncType'[w] = Null]_vars

\* A status response reported "not syncing" while a trigger request of the
\* same widget is still awaiting its answer: the widget is idle.
C12_Witness ==
  /\ phase[OneDriveA] = "mounted"
  /\ out = <<Show("console.log", "sync status result")>>
  /\ ~syncing[OneDriveA] /\ syncType[OneDriveA] = Null
  /\ \E r \in BagToSet(inflight[OneDriveA]) : r.op = "trigger"

\* --------------------------------------------------------------- C13
\* C13: in every state of a mounted widget, with the toggle off neither
\* 'Sync Now' nor 'Cancel' is rendered; with the toggle on exactly one of
\* them is, 'Cancel' iff syncing && syncType is the widget's provider; so
\* 'Sync Now' appears only in Enabled-Idle and 'Cancel' only in
\* Enabled-Syncing.
C13_ButtonsFollowView ==
  \A w \in Widgets :
    phase[w] = "mounted" =>
      /\ ~enabled[w] => ~SyncNowRendered(w) /\ ~CancelRendered(w)
      /\ enabled[w] => /\ SyncNowRendered(w) # CancelRendered(w)
                       /\ CancelRendered(w) = (syncing[w] /\ syncType[w] = Provider(w))
      /\ SyncNowRendered(w) => View(w) = "Enabled-Idle"
      /\ CancelRendered(w) => View(w) = "Enabled-Syncing"

\* Toggle on, a sync of the other provider reported: only 'Sync Now' shows.
C13_Witness ==
  /\ phase[Outlook] = "mounted" /\ enabled[Outlook]
  /\ syncing[Outlook] /\ syncType[Outlook] = "onedrive"
  /\ SyncNowRendered(Outlook) /\ ~CancelRendered(Outlook)

\* --------------------------------------------------------------- C14
\* C14: switching the toggle off while the widget is not syncing for its own
\* provider shows no prompt, sends no request, leaves the toggle off and the
\* provider fields unrendered, with the required rule no longer binding.
C14_IdleToggleOffIsFree ==
  [][\A w \in Widgets : \A answer \in BOOLEAN :
       (enabled[w] /\ ~OwnSync(w) /\ Toggle(w, answer)) =>
         /\ ~ConfirmShown' /\ out' = <<>>
         /\ inflight'[w] = inflight[w]
         /\ ~enabled'[w] /\ ~FieldsRendered(w)'
         /\ RequiredOk(email'[w], enabled'[w])
         /\ SameSyncState(w)]_vars

\* The toggle of a OneDrive widget is off, no prompt was shown and nothing
\* was sent, while the status says that Outlook is syncing.
C14_Witness ==
  /\ phase[OneDriveA] = "mounted" /\ ~enabled[OneDriveA]
  /\ syncing[OneDriveA] /\ syncType[OneDriveA] = "outlook"
  /\ out = <<>> /\ inflight[OneDriveA] = EmptyBag
  /\ kbId # NoKb /\ email[OneDriveA] = Empty

\* --------------------------------------------------------------- C15
OneDriveWidgets == {w \in Widgets : Provider(w) = "onedrive"}

\* What C15 says of the toggle itself: in a OneDrive widget the transition
\* OFF->ON schedules exactly one delayed call when the form holds an email
\* and none when it holds none, and sends nothing in the toggle step; in the
\* Outlook widget no toggle schedules or sends anything, and every trigger
\* request comes from a click on 'Sync Now'.
ToggleSchedules ==
  /\ \A w \in OneDriveWidgets : \A answer \in BOOLEAN :
       (~enabled[w] /\ Toggle(w, answer)) =>
         /\ enabled'[w] /\ inflight'[w] = inflight[w]
         /\ Len(timeouts'[w]) = Len(timeouts[w]) + (IF email[w] # Empty THEN 1 ELSE 0)
  /\ \A answer \in BOOLEAN :
       Toggle(Outlook, answer) =>
         /\ timeouts'[Outlook] = <<>>
         /\ Added(Outlook, "trigger") = 0
  /\ Added(Outlook, "trigger") > 0 => SyncNowClick(Outlook)

\* C15 as stated: every scheduled call, when its delay has passed, sends
\* exactly one trigger request.
C15_ToggleOnSchedulesOneTrigger ==
  [][/\ ToggleSchedules
     /\ \A w \in OneDriveWidgets :
          AutoTriggerFire(w) => Added(w, "trigger") = 1]_vars

\* C15 amended: the scheduled call sends exactly one trigger request, for
\* the kb_id of the render in which the toggle was flipped, when that kb_id
\* was present, and nothing when it was absent.
C15_ToggleOnSchedulesOneCall ==
  [][/\ ToggleSchedules
     /\ \A w \in OneDriveWidgets :
          AutoTriggerFire(w) =>
            /\ timeouts'[w] = Tail(timeouts[w])
            /\ LET tm == Head(timeouts[w])
               IN  IF tm.kb = NoKb
                   THEN inflight'[w] = inflight[w]
                   ELSE /\ Added(w, "trigger") = 1
                        /\ \E r \in BagToSet(inflight'[w]) :
                             /\ r.op = "trigger" /\ r.kb_id = tm.kb
                             /\ r.sync_type = "onedrive" /\ r.email = tm.email
                             /\ CopiesIn(r, inflight'[w]) = CopiesIn(r, inflight[w]) + 1]_vars

\* The toggle of a OneDrive widget went on with a@b.com in the form and the
\* delayed trigger is pending, nothing sent for it yet.
C15_Witness ==
  /\ phase[OneDriveA] = "mounted" /\ enabled[OneDriveA]
  /\ kbId # NoKb
  /\ timeouts[OneDriveA] = <<[kb |-> kbId, email |-> ValidEmail]>>
  /\ \A r \in BagToSet(inflight[OneDriveA]) : r.op # "trigger"

\* --------------------------------------------------------------- C16
\* C16: with kb_id present, every click on 'Sync Now' sends one more trigger
\* request, however many trigger requests are still awaiting their response.
C16_NoTriggerDeduplication ==
  [][\A w \in Widgets :
       (SyncNowClick(w) /\ kbId # NoKb) =>
         /\ Added(w, "trigger") = 1
         /\ OpCount(inflight'[w], "trigger") = OpCount(inflight[w], "trigger") + 1
         /\ SyncNowRendered(w)']_vars

\* Two clicks, no response yet: two identical trigger requests in flight.
C16_Witness ==
  /\ phase[Outlook] = "mounted" /\ kbId # NoKb
  /\ CopiesIn(TriggerReq(kbId, "outlook", email[Outlook], "folder_name",
                         folder[Outlook]), inflight[Outlook]) = 2

\* --------------------------------------------------------------- C17
\* The outcomes that are failures of a request: a rejection (transport
\* error or error status) and an answer without the expected payload.
Failures(req) ==
  {resp \in Outcomes(req) :
     \/ resp.kind = "reject"
     \/ req.op = "status" /\ ~resp.has_data
     \/ req.op # "status" /\ ~resp.data}

\* The step left nothing to the caller: all it showed or logged went to the
\* console or to a notification, none of it is an unhandled rejection.
Handled(o) ==
  \A i \in 1..Len(o) :
    o[i].ch \in {"console.log", "console.error", "message.error", "message.success"}

\* The continuation of every request in flight can run, on every outcome.
ContinuationsComplete ==
  \A w \in page : \A req \in BagToSet(inflight[w]) : \A resp \in Outcomes(req) :
    ENABLED Deliver(w, req, resp)

\* C17 as stated: on every failure the operation completes, nothing leaves
\* it, and it ends in a notification or a log.
C17_FailuresEndInOutput ==
  [][\A w \in Widgets : \A req \in BagToSet(inflight[w]) :
       \A resp \in Failures(req) :
         Deliver(w, req, resp) => Handled(out') /\ out' # <<>>]_vars

\* C17 amended: on every outcome the operation completes and nothing leaves
\* it; a rejected status request ends in one console.error and no
\* notification, a rejected trigger or cancel request in one console.error
\* and one error notification, a trigger or cancel answer without truthy
\* data in one error notification; a status answer without data is read as
\* "not syncing" and ends in no notification, and in no log either except
\* for the result log of OneDriveSync.
C17_FailuresAreCaught ==
  /\ []ContinuationsComplete
  /\ [][\A w \in Widgets : \A req \in BagToSet(inflight[w]) :
          /\ \A resp \in Outcomes(req) : Deliver(w, req, resp) => Handled(out')
          /\ \A resp \in Failures(req) :
               Deliver(w, req, resp) =>
                 /\ Shown("message.success")' = {}
                 /\ IF resp.kind = "reject"
                    THEN /\ Cardinality(Shown("console.error")') = 1
                         /\ Cardinality(Shown("message.error")') =
                              (IF req.op = "status" THEN 0 ELSE 1)
                    ELSE IF req.op = "status"
                    THEN /\ ~syncing'[w] /\ syncType'[w] = Null
                         /\ out' = IF w = OneDriveA
                                   THEN <<Show("console.log", "sync status result")>>
                                   ELSE <<>>
                    ELSE /\ Cardinality(Shown("message.error")') = 1
                         /\ Shown("console.error")' = {}]_vars

\* A cancel request was rejected without a response: logged and notified.
C17_Witness ==
  \E w \in Widgets :
    /\ phase[w] = "mounted"
    /\ out = <<LogError("Failed to cancel sync:", 0),
               Show("message.error", "cancelFailed")>>

LiveInit == Init /\ kbId \in Kbs

LiveNext ==
  \/ /\ \E w \in page : Mount(w)
     /\ UNCHANGED <<adminVars, backendVars>>
  \/ /\ \E w \in page : Tick(w)
     /\ UNCHANGED <<adminVars, backendVars>>
  \/ /\ \E w \in page : \E answer \in BOOLEAN : Toggle(w, answer)
     /\ UNCHANGED <<adminVars, backendVars>>
  \/ /\ \E w \in page : SyncNowClick(w)
     /\ UNCHANGED <<adminVars, backendVars>>
  \/ /\ \E w \in page : CancelClick(w)
     /\ UNCHANGED <<adminVars, backendVars>>
  \/ /\ \E w \in page : AutoTriggerFire(w)
     /\ UNCHANGED <<adminVars, backendVars>>
  \/ /\ \E w \in page : \E req \in Requests : \E resp \in Outcomes(req) :
          Deliver(w, req, resp)
     /\ UNCHANGED <<adminVars, backendVars>>
  \/ /\ \E w \in page : \E e \in Emails : EditEmail(w, e)
     /\ UNCHANGED <<adminVars, backendVars>>
  \/ /\ \E w \in page : \E f \in Folders : EditFolder(w, f)
     /\ UNCHANGED <<adminVars, backendVars>>

\* Some request of kind op of widget w is answered.
Answered(w, op) ==
  \E req \in Requests : \E resp \in Outcomes(req) :
    req.op = op /\ Deliver(w, req, resp)

\* React mounts the widget; the interval keeps firing every five seconds,
\* whatever else happens in between; every request is answered in the end.
LiveSpec ==
  /\ LiveInit /\ [][LiveNext]_allvars
  /\ \A w \in Widgets :
       /\ WF_vars(w \in page /\ Mount(w))
       /\ SF_vars(Tick(w))
       /\ WF_vars(Answered(w, "status"))
       /\ WF_vars(Answered(w, "trigger"))
       /\ WF_vars(Answered(w, "cancel"))

\* A status request of w is answered by something else than a report of
\* "not syncing".
OtherStatusAnswer(w) ==
  \E req \in Requests : \E resp \in StatusOutcomes :
    /\ req.op = "status"
    /\ resp.kind = "reject" \/ (resp.has_data /\ resp.is_syncing)
    /\ Deliver(w, req, resp)

\* C19: if from some point on every status response reports "not syncing",
\* then whenever the widget shows a sync as running, it later has
\* syncing = false and syncType = null.
C19_SyncingLeadsToIdle ==
  \A w \in Widgets :
    <>[][~OtherStatusAnswer(w)]_vars =>
      (syncing[w] ~> (~syncing[w] /\ syncType[w] = Null))

\* The widget showed its own sync as running, 'Cancel' was clicked, and a
\* status response has brought it back to idle before the cancel is answered.
C19_Witness ==
  \E w \in Widgets :
    /\ phase[w] = "mounted" /\ View(w) = "Enabled-Idle"
    /\ ~syncing[w] /\ syncType[w] = Null
    /\ BagIn(CancelReq(kbId), inflight[w])

\* --------------------------------------------------------------- C20
\* The generic fallback message of each command.
Fallback(op) == IF op = "trigger" THEN "syncFailed" ELSE "cancelFailed"

\* C20: a trigger or cancel request answered without truthy data shows one
\* error notification, whose text is the backend's message when that is not
\* empty and the generic fallback otherwise; a rejected trigger or cancel
\* request shows one error notification with the generic fallback.
C20_ErrorCarriesBackendMessage ==
  [][\A w \in Widgets : \A req \in BagToSet(inflight[w]) :
       \A resp \in CommandOutcomes :
         ( /\ req.op \in {"trigger", "cancel"}
           /\ ~(resp.kind = "resolve" /\ resp.data)
           /\ Deliver(w, req, resp) )
         => /\ Cardinality(Shown("message.error")') = 1
            /\ \A i \in Shown("message.error")' :
                 out'[i].text =
                   IF resp.kind = "resolve" /\ resp.message # ""
                   THEN resp.message
                   ELSE Fallback(req.op)]_vars

\* An error notification carries the message the backend sent.
C20_Witness ==
  \E w \in Widgets :
    /\ phase[w] = "mounted"
    /\ out = <<Show("message.error", "backend message")>>

\* ================================================= the role service
\* Calls of the role hook or of the permission form awaiting a response at
\* the same time.
MaxPending == 2

Users == {"u1", "u2"}
RoleIds == {"r1", "r2"}

\* The role lists the backend can return: roles in any order, none twice.
RoleLists ==
  {l \in UNION {[1..n -> RoleIds] : n \in 0..Cardinality(RoleIds)} :
     \A i, j \in DOMAIN l : i # j => l[i] # l[j]}

RoleScreens == {"setting-role", "setting-team", "dataset-setting"}

\* What request.get can answer to /v1/role/list: a response whose data is the
\* backend envelope (with or without data.roles), a response without data,
\* or a thrown error.
RolesOutcomes ==
  [kind : {"resolve"}, has_data : {TRUE}, code : {0, 102},
   has_roles : {TRUE}, roles : RoleLists]
  \cup [kind : {"resolve"}, has_data : {TRUE}, code : {0, 102},
        has_roles : {FALSE}, roles : {<<>>}]
  \cup {[kind |-> "resolve", has_data |-> FALSE, code |-> 0,
         has_roles |-> FALSE, roles |-> <<>>]}
  \cup {[kind |-> "reject", has_data |-> FALSE, code |-> 0,
         has_roles |-> FALSE, roles |-> <<>>]}

\* Mutant: the catch block of fetchRoles rethrows instead of returning the
\* failure envelope.
fetchRoles_Rethrow(o) ==
  IF o.kind = "resolve"
  THEN IF o.has_data
       THEN [kind |-> "resolve", code |-> o.code,
             data |-> IF o.has_roles THEN o.roles ELSE <<>>, status |-> 200]
       ELSE [kind |-> "resolve", code |-> 0, data |-> <<>>, status |-> 200]
  ELSE [kind |-> "reject", code |-> 500, data |-> <<>>, status |-> 500]

\* fetchRoles: how the promise it returns settles when request.get has
\* settled with o.  Every path of the function is a return, so the promise
\* resolves; the value is the envelope built on that path.
fetchRoles(o) ==
  IF o.kind = "resolve"
  THEN IF o.has_data
       THEN [kind |-> "resolve", code |-> o.code,
             data |-> IF o.has_roles THEN o.roles ELSE <<>>, status |-> 200]
       ELSE [kind |-> "resolve", code |-> 0, data |-> <<>>, status |-> 200]
  ELSE [kind |-> "resolve", code |-> 500, data |-> <<>>, status |-> 500]

\* console.log of a label and an envelope, of which the code is kept.
LogResult(text, code) == [ch |-> "console.log", text |-> text, code |-> code]

\* The continuation of useRoleList.fetchRoleList once fetchRoles has settled
\* with result: the roles afterwards and what was logged.  result.data is an
\* array on every path of fetchRoles, so the first setRoles branch is taken.
fetchRoleListResume(result) ==
  IF result.kind = "resolve"
  THEN [roles |-> result.data,
        out |-> <<LogResult("role list result:", result.code),
                  Show("console.log", "set role list (array)")>>]
  ELSE [roles |-> <<>>,
        out |-> <<LogError("fetch role list failed:", result.status)>>]

\* The continuation of GeneralForm.getRoles: setRoles(response.data || []),
\* and only a log when fetchRoles has thrown.
getRolesResume(response, rs) ==
  IF response.kind = "resolve"
  THEN [roles |-> response.data, out |-> <<>>]
  ELSE [roles |-> rs,
        out |-> <<LogError("Failed to fetch roles:", response.status)>>]

\* A call of the hook or of the form: its function and the await it is at.
Call(op, stage) == [op |-> op, stage |-> stage]

RoleOps == {"handleCreateRole", "handleUpdateRole", "handleDeleteRole"}

Created(op) ==
  CASE op = "handleCreateRole" -> "message.created"
    [] op = "handleUpdateRole" -> "message.updated"
    [] op = "handleDeleteRole" -> "message.deleted"

\* The continuation of handleCreateRole / handleUpdateRole / handleDeleteRole
\* once the role request has settled, the flag being l: on success the
\* notification and the start of fetchRoleList (setLoading(true), await);
\* on failure the log and the finally block.
handleRoleOpResume(op, ok, l) ==
  IF ok
  THEN [loading |-> TRUE, next |-> {Call(op, "fetchRoleList")},
        out |-> (IF op = "handleCreateRole"
                 THEN <<Show("console.log", "create role response")>>
                 ELSE <<>>)
                \o <<Show("message.success", Created(op))>>]
  ELSE [loading |-> FALSE, next |-> {},
        out |-> <<LogError("Failed role operation:", 0)>>]

\* The page's mount effects: useRoleList fetches the list of the tenant, the
\* permission form calls getRoles; both set their loading flag first.
Open ==
  /\ screen \in RoleScreens
  /\ ~opened
  /\ opened' = TRUE
  /\ loading' = TRUE
  /\ pending' = Send(pending,
                     IF screen = "dataset-setting"
                     THEN Call("getRoles", "fetchRoles")
                     ELSE Call("fetchRoleList", "fetchRoles"))
  /\ out' = <<>>
  /\ UNCHANGED <<screen, roles, userRolesMap, currentUser, roleActionInProgress,
                 roleCalls, type, roleId>>

\* The role page starts a create, update or delete: setLoading(true) and the
\* role request.
RoleOp(op) ==
  /\ screen = "setting-role"
  /\ opened
  /\ BagCardinality(pending) < MaxPending
  /\ loading' = TRUE
  /\ pending' = Send(pending, Call(op, "request"))
  /\ out' = IF op = "handleCreateRole"
            THEN <<Show("console.log", "create role request")>>
            ELSE <<>>
  /\ UNCHANGED <<screen, opened, roles, userRolesMap, currentUser,
                 roleActionInProgress, roleCalls, type, roleId>>

\* The role request of a create, update or delete settles.
AnswerRoleOp(call, ok) ==
  /\ BagIn(call, pending)
  /\ call.stage = "request"
  /\ LET r == handleRoleOpResume(call.op, ok, loading)
     IN  /\ loading' = r.loading
         /\ pending' = (pending (-) SetToBag({call})) (+) SetToBag(r.next)
         /\ out' = r.out
  /\ UNCHANGED <<screen, opened, roles, userRolesMap, currentUser,
                 roleActionInProgress, roleCalls, type, roleId>>

\* The list request of a call settles with o: fetchRoles returns, the caller
\* continues, and every finally block on the way out clears the flag.
AnswerRoles(call, o) ==
  /\ BagIn(call, pending)
  /\ call.stage # "request"
  /\ o \in RolesOutcomes
  /\ LET r == IF call.op = "getRoles"
              THEN getRolesResume(fetchRoles(o), roles)
              ELSE fetchRoleListResume(fetchRoles(o))
     IN  /\ roles' = r.roles
         /\ out' = r.out
  /\ loading' = FALSE
  /\ pending' = pending (-) SetToBag({call})
  /\ UNCHANGED <<screen, opened, userRolesMap, currentUser, roleActionInProgress,
                 roleCalls, type, roleId>>

\* ===================================================== UserTable
\* What `post` can answer to the add / remove request: a response whose data
\* is the backend envelope with its code, a response without data (reading
\* result.code then throws), or a rejection.
RolePostOutcomes ==
  [kind : {"resolve"}, has_data : {TRUE}, code : {0, 102}]
  \cup {[kind |-> "resolve", has_data |-> FALSE, code |-> 0],
        [kind |-> "reject", has_data |-> FALSE, code |-> 0]}

\* What getUserRoles can answer to the re-fetch: a response that carries
\* data.data.roles, one that does not, or a rejection.
UserRolesOutcomes ==
  [kind : {"resolve"}, has_roles : {TRUE}, roles : RoleLists]
  \cup {[kind |-> "resolve", has_roles |-> FALSE, roles |-> <<>>],
        [kind |-> "reject", has_roles |-> FALSE, roles |-> <<>>]}

RoleCall(op, userId, role, stage) ==
  [op |-> op, user |-> userId, role |-> role, stage |-> stage]

RoleCallOutcomes(call) ==
  IF call.stage = "post" THEN RolePostOutcomes ELSE UserRolesOutcomes

\* The translation keys of the two handlers.
Succeeded(op) ==
  IF op = "handleAddRole" THEN "setting.roleAddedSuccess"
  ELSE "setting.roleRemovedSuccess"

Failed(op) ==
  IF op = "handleAddRole" THEN "setting.roleAddFailed"
  ELSE "setting.roleRemoveFailed"

\* userRolesMap[userId] || []
RolesOf(map, userId) == IF userId \in DOMAIN map THEN map[userId] ELSE <<>>

\* {...prev, [userId]: list}
WithRoles(map, userId, list) ==
  [u \in DOMAIN map \cup {userId} |-> IF u = userId THEN list ELSE map[u]]

\* The synchronous part of handleAddRole / handleRemoveRole, up to the await
\* of `post`: the parameter guard, setRoleActionInProgress(true), the request.
handleRoleStart(op, userId, role, calls) ==
  IF userId = NoUser \/ role = ""
  THEN [started |-> FALSE, roleCalls |-> calls,
        out |-> <<Show("message.error", "setting.missingRequiredParams")>>]
  ELSE [started |-> TRUE,
        roleCalls |-> Send(calls, RoleCall(op, userId, role, "post")),
        out |-> <<Show("console.log", op)>>]

\* Mutant: the map is updated from the re-fetch whatever code the role call
\* returned.
handleRoleResume_AnyCode(call, resp, map) ==
  IF call.stage = "post"
  THEN IF resp.kind = "resolve" /\ resp.has_data
       THEN [done |-> FALSE,
             next |-> {RoleCall(call.op, call.user, call.role, "getUserRoles")},
             map |-> map, out |-> <<>>]
       ELSE [done |-> TRUE, next |-> {}, map |-> map,
             out |-> <<LogError("Failed role call:", 0),
                       Show("message.error", Failed(call.op))>>]
  ELSE IF resp.kind = "resolve"
       THEN [done |-> TRUE, next |-> {},
             map |-> WithRoles(map, call.user,
                               IF resp.has_roles THEN resp.roles ELSE <<>>),
             out |-> <<Show("message.success", Succeeded(call.op))>>]
       ELSE [done |-> TRUE, next |-> {}, map |-> map,
             out |-> <<LogError("Failed role call:", 0),
                       Show("message.error", Failed(call.op))>>]

\* Mutant: the catch block returns without the finally block resetting the
\* flag.
handleRoleResume_NoFinally(call, resp, map) ==
  IF call.stage = "post"
  THEN IF resp.kind = "resolve" /\ resp.has_data
       THEN IF resp.code = 0
            THEN [done |-> FALSE,
                  next |-> {RoleCall(call.op, call.user, call.role, "getUserRoles")},
                  map |-> map, out |-> <<>>]
            ELSE [done |-> TRUE, next |-> {}, map |-> map,
                  out |-> <<Show("message.error", <<Failed(call.op), "message">>)>>]
       ELSE [done |-> FALSE, next |-> {}, map |-> map,
             out |-> <<LogError("Failed role call:", 0),
                       Show("message.error", Failed(call.op))>>]
  ELSE IF resp.kind = "resolve"
       THEN [done |-> TRUE, next |-> {},
             map |-> WithRoles(map, call.user,
                               IF resp.has_roles THEN resp.roles ELSE <<>>),
             out |-> <<Show("message.success", Succeeded(call.op))>>]
       ELSE [done |-> FALSE, next |-> {}, map |-> map,
             out |-> <<LogError("Failed role call:", 0),
                       Show("message.error", Failed(call.op))>>]

\* The continuation of handleAddRole / handleRemoveRole once the request the
\* call awaits has settled with resp, the map being `map`.  After `post`:
\* code 0 sends the re-fetch, another code shows the backend message, a
\* missing envelope or a rejection lands in the catch block.  After the
\* re-fetch: the entry of the user is replaced and success is shown, or the
\* catch block runs.  `done` is the finally block, reached on every path that
\* leaves the function.
handleRoleResume(call, resp, map) ==
  IF call.stage = "post"
  THEN IF resp.kind = "resolve" /\ resp.has_data
       THEN IF resp.code = 0
            THEN [done |-> FALSE,
                  next |-> {RoleCall(call.op, call.user, call.role, "getUserRoles")},
                  map |-> map, out |-> <<>>]
            ELSE [done |-> TRUE, next |-> {}, map |-> map,
                  out |-> <<Show("message.error", <<Failed(call.op), "message">>)>>]
       ELSE [done |-> TRUE, next |-> {}, map |-> map,
             out |-> <<LogError("Failed role call:", 0),
                       Show("message.error", Failed(call.op))>>]
  ELSE IF resp.kind = "resolve"
       THEN [done |-> TRUE, next |-> {},
             map |-> WithRoles(map, call.user,
                               IF resp.has_roles THEN resp.roles ELSE <<>>),
             out |-> <<Show("message.success", Succeeded(call.op))>>]
       ELSE [done |-> TRUE, next |-> {}, map |-> map,
             out |-> <<LogError("Failed role call:", 0),
                       Show("message.error", Failed(call.op))>>]

\* The tags of the bind-role modal: the roles of the current user carry the
\* remove handler, the other roles of the hook's list the add handler, and
\* neither has a handler while roleActionInProgress.
Range(l) == {l[i] : i \in DOMAIN l}

RemoveEnabled(role) ==
  /\ screen = "setting-team" /\ opened
  /\ currentUser # NoUser
  /\ role \in Range(RolesOf(userRolesMap, currentUser))
  /\ ~roleActionInProgress

AddEnabled(role) ==
  /\ screen = "setting-team" /\ opened
  /\ currentUser # NoUser
  /\ role \in Range(roles) \ Range(RolesOf(userRolesMap, currentUser))
  /\ ~roleActionInProgress

\* The fetchUserRoles effect has asked for the roles of every tenant user and
\* replaces the whole map; it runs again whenever the user list is refetched.
FetchUserRoles(m) ==
  /\ screen = "setting-team" /\ opened
  /\ m # userRolesMap
  /\ userRolesMap' = m
  /\ out' = <<>>
  /\ UNCHANGED <<screen, opened, loading, roles, pending, currentUser,
                 roleActionInProgress, roleCalls, type, roleId>>

\* showBindRoleModal: the user clicks the bind-role button of a row.
showBindRoleModal(record) ==
  /\ screen = "setting-team" /\ opened
  /\ currentUser = NoUser
  /\ currentUser' = record
  /\ out' = <<>>
  /\ UNCHANGED <<screen, opened, loading, roles, pending, userRolesMap,
                 roleActionInProgress, roleCalls, type, roleId>>

\* handleBindRoleCancel: the user closes the modal.
handleBindRoleCancel ==
  /\ screen = "setting-team" /\ opened
  /\ currentUser # NoUser
  /\ currentUser' = NoUser
  /\ out' = <<>>
  /\ UNCHANGED <<screen, opened, loading, roles, pending, userRolesMap,
                 roleActionInProgress, roleCalls, type, roleId>>

\* The effect on [currentUserId, currentUserRoles]: the roles that
\* useGetUserRoles has fetched for the user of the modal enter the map.
currentUserRolesEffect(list) ==
  /\ screen = "setting-team" /\ opened
  /\ currentUser # NoUser
  /\ RolesOf(userRolesMap, currentUser) # list \/ currentUser \notin DOMAIN userRolesMap
  /\ userRolesMap' = WithRoles(userRolesMap, currentUser, list)
  /\ out' = <<>>
  /\ UNCHANGED <<screen, opened, loading, roles, pending, currentUser,
                 roleActionInProgress, roleCalls, type, roleId>>

\* The user clicks an available role (op handleAddRole) or closes the tag of
\* a bound role (op handleRemoveRole).
RoleClick(op, role) ==
  /\ IF op = "handleAddRole" THEN AddEnabled(role) ELSE RemoveEnabled(role)
  /\ LET h == handleRoleStart(op, currentUser, role, roleCalls)
     IN  /\ roleActionInProgress' = (h.started \/ roleActionInProgress)
         /\ roleCalls' = h.roleCalls
         /\ out' = h.out
  /\ UNCHANGED <<screen, opened, loading, roles, pending, userRolesMap,
                 currentUser, type, roleId>>

\* The request a handler awaits settles and the handler continues.
RoleAnswer(call, resp) ==
  /\ BagIn(call, roleCalls)
  /\ resp \in RoleCallOutcomes(call)
  /\ LET r == handleRoleResume(call, resp, userRolesMap)
     IN  /\ userRolesMap' = r.map
         /\ roleActionInProgress' = IF r.done THEN FALSE ELSE roleActionInProgress
         /\ roleCalls' = (roleCalls (-) SetToBag({call})) (+) SetToBag(r.next)
         /\ out' = r.out
  /\ UNCHANGED <<screen, opened, loading, roles, pending, currentUser, type,
                 roleId>>

\* =================================================== GeneralForm
PermissionTypes == {"me", "team", "role"}

\* Mutant: the radio group only stores the selected type.
onValueChange_KeepsRole(value, rid) == [type |-> value, roleId |-> rid]

\* RadioGroup.onValueChange: field.onChange(value), and roleId is cleared
\* when the value is not 'role'.
onValueChange(value, rid) ==
  [type |-> value, roleId |-> IF value # "role" THEN "" ELSE rid]

\* The role select is rendered when form.watch('type') === 'role'.
RoleSelectRendered == screen = "dataset-setting" /\ opened /\ type = "role"

\* The user selects a permission type.
SelectType(value) ==
  /\ screen = "dataset-setting" /\ opened
  /\ value # type
  /\ LET f == onValueChange(value, roleId)
     IN  /\ type' = f.type
         /\ roleId' = f.roleId
  /\ out' = <<>>
  /\ UNCHANGED <<screen, opened, loading, roles, pending, userRolesMap,
                 currentUser, roleActionInProgress, roleCalls>>

\* The user picks a role in the select, which is disabled while loading and
\* lists the roles of getRoles.
PickRole(r) ==
  /\ RoleSelectRendered
  /\ ~loading
  /\ r \in Range(roles)
  /\ r # roleId
  /\ roleId' = r
  /\ out' = <<>>
  /\ UNCHANGED <<screen, opened, loading, roles, pending, userRolesMap,
                 currentUser, roleActionInProgress, roleCalls, type>>

\* ================================================ role components
\* The sync widgets are not on these pages: their state stays as constructed.
NoWidgets ==
  /\ page = {}
  /\ kbId = NoKb
  /\ phase = [w \in Widgets |-> "new"]
  /\ syncing = [w \in Widgets |-> FALSE]
  /\ syncType = [w \in Widgets |-> Null]
  /\ enabled = [w \in Widgets |-> FALSE]
  /\ email = [w \in Widgets |-> Empty]
  /\ folder = [w \in Widgets |-> Empty]
  /\ intervals = [w \in Widgets |-> <<>>]
  /\ timeouts = [w \in Widgets |-> <<>>]
  /\ inflight = [w \in Widgets |-> EmptyBag]

widgetVars == <<page, kbId, phase, syncing, syncType, enabled, email, folder,
                intervals, timeouts, inflight>>

RoleInit ==
  /\ NoWidgets
  /\ out = <<>>
  /\ screen \in RoleScreens
  /\ AdminIdle
  /\ BackendIdle

RoleNext ==
  \/ /\ Open
     /\ UNCHANGED <<widgetVars, backendVars>>
  \/ /\ \E op \in RoleOps : RoleOp(op)
     /\ UNCHANGED <<widgetVars, backendVars>>
  \/ /\ \E call \in BagToSet(pending) : \E ok \in BOOLEAN : AnswerRoleOp(call, ok)
     /\ UNCHANGED <<widgetVars, backendVars>>
  \/ /\ \E call \in BagToSet(pending) : \E o \in RolesOutcomes : AnswerRoles(call, o)
     /\ UNCHANGED <<widgetVars, backendVars>>
  \/ /\ \E m \in [Users -> RoleLists] : FetchUserRoles(m)
     /\ UNCHANGED <<widgetVars, backendVars>>
  \/ /\ \E record \in Users : showBindRoleModal(record)
     /\ UNCHANGED <<widgetVars, backendVars>>
  \/ /\ handleBindRoleCancel
     /\ UNCHANGED <<widgetVars, backendVars>>
  \/ /\ \E list \in RoleLists : currentUserRolesEffect(list)
     /\ UNCHANGED <<widgetVars, backendVars>>
  \/ /\ \E op \in {"handleAddRole", "handleRemoveRole"} : \E role \in RoleIds :
          RoleClick(op, role)
     /\ UNCHANGED <<widgetVars, backendVars>>
  \/ /\ \E call \in BagToSet(roleCalls) : \E resp \in RoleCallOutcomes(call) :
          RoleAnswer(call, resp)
     /\ UNCHANGED <<widgetVars, backendVars>>
  \/ /\ \E value \in PermissionTypes : SelectType(value)
     /\ UNCHANGED <<widgetVars, backendVars>>
  \/ /\ \E r \in RoleIds : PickRole(r)
     /\ UNCHANGED <<widgetVars, backendVars>>

RoleSpec == RoleInit /\ [][RoleNext]_allvars

\* ------------------------------------------------------------ C21
\* C21: handleAddRole and handleRemoveRole change userRolesMap only in the
\* continuation of the re-fetch, which is sent only after the role call has
\* returned code 0; the entry of the user then becomes the re-fetched list
\* (the empty list when the response carries none), the other entries stay,
\* and success is shown.  When the role call returns another code, returns no
\* envelope or throws, the map is unchanged and an error notification is
\* shown; the synchronous part of the handlers never touches the map.
Notified(ch) == \E i \in 1..Len(out') : out'[i].ch = ch

CodeZero(resp) == resp.kind = "resolve" /\ resp.has_data /\ resp.code = 0

C21_MapFollowsCodeZero ==
  [][/\ \A call \in BagToSet(roleCalls) : \A resp \in RoleCallOutcomes(call) :
          RoleAnswer(call, resp) =>
            /\ call.stage = "post" /\ ~CodeZero(resp) =>
                 /\ userRolesMap' = userRolesMap
                 /\ Notified("message.error")
                 /\ ~BagIn(RoleCall(call.op, call.user, call.role, "getUserRoles"),
                           roleCalls')
            /\ call.stage = "post" /\ CodeZero(resp) =>
                 /\ userRolesMap' = userRolesMap
                 /\ BagIn(RoleCall(call.op, call.user, call.role, "getUserRoles"),
                          roleCalls')
            /\ call.stage = "getUserRoles" /\ resp.kind = "resolve" =>
                 /\ userRolesMap' =
                      WithRoles(userRolesMap, call.user,
                                IF resp.has_roles THEN resp.roles ELSE <<>>)
                 /\ Notified("message.success")
            /\ call.stage = "getUserRoles" /\ resp.kind = "reject" =>
                 /\ userRolesMap' = userRolesMap
                 /\ Notified("message.error")
     /\ \A op \in {"handleAddRole", "handleRemoveRole"} : \A role \in RoleIds :
          RoleClick(op, role) => userRolesMap' = userRolesMap
    ]_allvars

\* A role has just been added: the map holds the re-fetched list of the user
\* and the success notification is on the screen.
C21_Witness ==
  /\ out = <<Show("message.success", "setting.roleAddedSuccess")>>
  /\ currentUser # NoUser
  /\ RolesOf(userRolesMap, currentUser) # <<>>
  /\ ~roleActionInProgress

\* ------------------------------------------------------------ C22
\* C22: in the permission form, whenever the type is not 'role' the roleId
\* field is the empty string and the role select is not rendered; every
\* selection stores the selected type, leaves roleId empty when the selected
\* type is not 'role' and also when 'role' is selected again (the role picked
\* before switching away is gone), and the role select is rendered afterwards
\* iff the selected type is 'role'.
C22_RoleIdClearedOffRole ==
  /\ [](type # "role" => roleId = "" /\ ~RoleSelectRendered)
  /\ [][\A value \in PermissionTypes :
          SelectType(value) =>
            /\ type' = value
            /\ value # "role" => roleId' = ""
            /\ value = "role" => roleId' = ""
            /\ RoleSelectRendered' <=> value = "role"
       ]_allvars

\* The user has switched from 'role' with a role picked to 'team': the list
\* of roles is loaded, a selection other than the initial 'me' is stored.
C22_Witness ==
  /\ screen = "dataset-setting"
  /\ type = "team"
  /\ roleId = ""
  /\ roles # <<>>
  /\ ~loading

\* ------------------------------------------------------------ C23
\* C23: roleActionInProgress is true exactly while a handleAddRole or
\* handleRemoveRole call is between its start and its finally block; while it
\* is true no tag of the modal has a click handler, so at most one such call
\* is in progress; once the call has finished (success, failure or exception)
\* the flag is false.
C23_OneRoleActionAtATime ==
  /\ roleActionInProgress <=> roleCalls # EmptyBag
  /\ BagCardinality(roleCalls) <= 1
  /\ roleActionInProgress =>
       \A role \in RoleIds : ~AddEnabled(role) /\ ~RemoveEnabled(role)

\* A call is waiting for its re-fetch with the modal open on a user that has
\* both a bound and an available role: both kinds of tag are on the screen
\* without a handler.
C23_Witness ==
  /\ roleActionInProgress
  /\ currentUser # NoUser
  /\ \E call \in BagToSet(roleCalls) : call.stage = "getUserRoles"
  /\ Range(RolesOf(userRolesMap, currentUser)) # {}
  /\ Range(roles) \ Range(RolesOf(userRolesMap, currentUser)) # {}

\* ------------------------------------------------------------ C24
\* C24: in every state of a sync widget syncing = false implies syncType =
\* null, and the two fields change only together in the continuation of a
\* request: to (true, type) after a status response that reports a sync or
\* after a successful trigger, to (false, null) after a status response that
\* reports none or, in OutlookMailSync, after a 404.
C24_SyncTypeOnlyWhileSyncing ==
  /\ [](\A w \in Widgets : ~syncing[w] => syncType[w] = Null)
  /\ [][\A w \in Widgets :
          <<syncing[w], syncType[w]>>' # <<syncing[w], syncType[w]>> =>
            \E req \in BagToSet(inflight[w]) : \E resp \in Outcomes(req) :
              /\ Deliver(w, req, resp)
              /\ \/ /\ req.op = "status"
                    /\ resp.kind = "resolve" /\ resp.has_data /\ resp.is_syncing
                    /\ syncing'[w] /\ syncType'[w] = resp.sync_type
                 \/ /\ req.op = "trigger"
                    /\ resp.kind = "resolve" /\ resp.data
                    /\ syncing'[w] /\ syncType'[w] = Provider(w)
                 \/ /\ req.op = "status"
                    /\ resp.kind = "resolve" /\ ~(resp.has_data /\ resp.is_syncing)
                    /\ ~syncing'[w] /\ syncType'[w] = Null
                 \/ /\ req.op = "status" /\ w = Outlook
                    /\ resp.kind = "reject" /\ resp.status = NotFound
                    /\ ~syncing'[w] /\ syncType'[w] = Null
       ]_allvars

\* A widget that showed a sync has been reset by a status response and still
\* has a cancel request in flight.
C24_Witness ==
  \E w \in Widgets :
    /\ phase[w] = "mounted"
    /\ ~syncing[w] /\ syncType[w] = Null
    /\ OpCount(inflight[w], "cancel") > 0

\* ------------------------------------------------------------ C25
\* The order of requests and responses.  `stale` counts, per widget, the
\* status requests still in flight that were sent before the widget's last
\* successful trigger; the code keeps no such order, the count is kept here
\* to say which response is which.
TriggerSucceeded(req, resp) ==
  req.op = "trigger" /\ resp.kind = "resolve" /\ resp.data

\* The response to req arrives; for a status request, old tells whether it
\* is one of those sent before the last successful trigger.
RaceDeliver(w, req, resp, old) ==
  /\ Deliver(w, req, resp)
  /\ CASE TriggerSucceeded(req, resp) ->
            /\ ~old
            /\ stale' = [stale EXCEPT ![w] = OpCount(inflight[w], "status")]
       [] req.op = "status" /\ old ->
            /\ stale[w] > 0
            /\ stale' = [stale EXCEPT ![w] = @ - 1]
       [] req.op = "status" /\ ~old ->
            /\ stale[w] < OpCount(inflight[w], "status")
            /\ stale' = stale
       [] OTHER ->
            /\ ~old
            /\ stale' = stale
  /\ UNCHANGED <<adminVars, active>>

RaceInit == Init /\ kbId \in Kbs

RaceNext ==
  \/ /\ \E w \in page : Mount(w)
     /\ UNCHANGED <<adminVars, backendVars>>
  \/ /\ \E w \in page : Unmount(w)
     /\ UNCHANGED <<adminVars, backendVars>>
  \/ /\ \E w \in page : Tick(w)
     /\ UNCHANGED <<adminVars, backendVars>>
  \/ /\ \E w \in page : \E answer \in BOOLEAN : Toggle(w, answer)
     /\ UNCHANGED <<adminVars, backendVars>>
  \/ /\ \E w \in page : SyncNowClick(w)
     /\ UNCHANGED <<adminVars, backendVars>>
  \/ /\ \E w \in page : CancelClick(w)
     /\ UNCHANGED <<adminVars, backendVars>>
  \/ /\ \E w \in page : AutoTriggerFire(w)
     /\ UNCHANGED <<adminVars, backendVars>>
  \/ \E w \in page : \E req \in Requests : \E resp \in Outcomes(req) :
       \E old \in BOOLEAN : RaceDeliver(w, req, resp, old)
  \/ /\ \E w \in page : \E e \in Emails : EditEmail(w, e)
     /\ UNCHANGED <<adminVars, backendVars>>
  \/ /\ \E w \in page : \E f \in Folders : EditFolder(w, f)
     /\ UNCHANGED <<adminVars, backendVars>>

RaceSpec == RaceInit /\ [][RaceNext]_allvars

EnabledSyncing(w) == phase[w] = "mounted" /\ enabled[w] /\ OwnSync(w)
EnabledIdle(w) == phase[w] = "mounted" /\ enabled[w] /\ ~OwnSync(w)

\* C25: once a successful trigger has put a widget into Enabled-Syncing, the
\* response to a status request that was sent before that trigger succeeded
\* does not move the widget to Enabled-Idle.  (The continuation of
\* checkSyncStatus applies every response in arrival order, so this fails.)
C25_StaleStatusIgnored ==
  [][\A w \in Widgets : \A req \in BagToSet(inflight[w]) :
       \A resp \in Outcomes(req) :
         RaceDeliver(w, req, resp, TRUE) /\ req.op = "status" /\ EnabledSyncing(w)
           => ~EnabledIdle(w)'
    ]_allvars

\* ------------------------------------------------------------ C26
\* C26: in the OneDrive widget every step that sends a trigger request is
\* taken while the toggle is ON and the widget is mounted.  (The timeout
\* set by an OFF->ON transition is never cleared, so this fails.)
C26_TriggerOnlyWhileOnAndMounted ==
  [][\A w \in OneDriveWidgets :
       Added(w, "trigger") > 0 => enabled[w] /\ phase[w] = "mounted"
    ]_allvars

\* ------------------------------------------------------------ C27
\* C27: a mounted sync widget never has syncing = true with syncType equal to
\* its own provider while its toggle is OFF.  (The toggle and the pair are
\* written by different handlers, so this fails.)
C27_NoOwnSyncWhileOff ==
  \A w \in Widgets : phase[w] = "mounted" /\ ~enabled[w] => ~OwnSync(w)

\* ------------------------------------------------------------ C28
\* ConfigurationForm renders OutlookMailSync and OneDriveSync side by side on
\* the same kb_id.  The backend runs at most one sync: `active` is the
\* sync_type it reports.  It starts a sync only when none is running, and a
\* response is produced from its state at the moment it is delivered.
Pair == {Outlook, OneDriveA}

PairInit ==
  /\ page = Pair
  /\ kbId \in Kbs
  /\ phase = [w \in Widgets |-> "new"]
  /\ syncing = [w \in Widgets |-> FALSE]
  /\ syncType = [w \in Widgets |-> Null]
  /\ enabled = [w \in Widgets |-> w \in page]
  /\ email = [w \in Widgets |-> IF w \in page THEN ValidEmail ELSE Empty]
  /\ folder = [w \in Widgets |-> IF w \in page THEN Inbox ELSE Empty]
  /\ intervals = [w \in Widgets |-> <<>>]
  /\ timeouts = [w \in Widgets |-> <<>>]
  /\ inflight = [w \in Widgets |-> EmptyBag]
  /\ out = <<>>
  /\ screen = "configuration"
  /\ AdminIdle
  /\ active \in Providers \cup {Null}
  /\ stale = [w \in Widgets |-> 0]

\* The backend answers req with resp: a resolved status response reports the
\* running sync, a trigger succeeds only when no sync is running and starts
\* one, a successful cancel stops the running sync; any request can fail.
PairDeliver(w, req, resp) ==
  /\ Deliver(w, req, resp)
  /\ CASE req.op = "status" ->
            /\ resp.kind = "resolve" =>
                 /\ resp.has_data
                 /\ resp.is_syncing = (active # Null)
                 /\ resp.sync_type = active
            /\ active' = active
       [] req.op = "trigger" ->
            IF resp.kind = "resolve" /\ resp.data
            THEN active = Null /\ active' = req.sync_type
            ELSE active' = active
       [] req.op = "cancel" ->
            IF resp.kind = "resolve" /\ resp.data
            THEN active' = Null
            ELSE active' = active
  /\ UNCHANGED <<adminVars, stale>>

\* The running sync completes on the backend.
SyncFinished ==
  /\ active # Null
  /\ active' = Null
  /\ out' = <<>>
  /\ UNCHANGED <<widgetVars, adminVars, stale>>

PairNext ==
  \/ /\ \E w \in page : Mount(w)
     /\ UNCHANGED <<adminVars, backendVars>>
  \/ /\ \E w \in page : Tick(w)
     /\ UNCHANGED <<adminVars, backendVars>>
  \/ /\ \E w \in page : SyncNowClick(w)
     /\ UNCHANGED <<adminVars, backendVars>>
  \/ /\ \E w \in page : CancelClick(w)
     /\ UNCHANGED <<adminVars, backendVars>>
  \/ \E w \in page : \E req \in Requests : \E resp \in Outcomes(req) :
       PairDeliver(w, req, resp)
  \/ SyncFinished

PairSpec == PairInit /\ [][PairNext]_allvars

\* C28: an Outlook widget and a OneDrive widget mounted together on the same
\* kb_id are never both in Enabled-Syncing.  (Each widget keeps its own copy
\* of the status and flips it optimistically, so this fails.)
C28_NeverBothSyncing ==
  ~(EnabledSyncing(Outlook) /\ EnabledSyncing(OneDriveA))

\* ------------------------------------------------------------ C29
\* C29: in useRoleList the loading flag is true exactly while a list fetch or
\* a create / update / delete operation is in flight.  (The flag is a boolean
\* that every finally block clears, so with two operations in flight the
\* first to finish clears it; this fails.)
C29_LoadingWhileInFlight ==
  screen \in {"setting-role", "setting-team"} =>
    (loading <=> pending # EmptyBag)

\* ------------------------------------------------------------ C30
\* C30: fetchRoles never rejects.  For every outcome of request.get it
\* resolves to an envelope whose data is a list of roles: the roles of the
\* response, the empty list when the response or its roles are missing, and
\* the empty list with code 500 when the request threw.  After every
\* fetchRoleList call of useRoleList the roles are that list, hence empty
\* when the request failed; GeneralForm.getRoles stores the same list.
C30_FetchRolesAlwaysResolves ==
  [][\A call \in BagToSet(pending) : \A o \in RolesOutcomes :
       AnswerRoles(call, o) =>
         LET e == fetchRoles(o)
         IN  /\ e.kind = "resolve"
             /\ e.data \in RoleLists
             /\ o.kind = "reject" => e.code = 500 /\ e.data = <<>>
             /\ o.kind = "resolve" /\ ~o.has_data => e.code = 0 /\ e.data = <<>>
             /\ o.kind = "resolve" /\ o.has_data /\ o.has_roles => e.data = o.roles
             /\ roles' = e.data
             /\ ~loading'
    ]_allvars

\* The list request of the role page has just failed: the envelope logged by
\* fetchRoleList carries code 500 and the list is empty.
C30_Witness ==
  /\ screen = "setting-role"
  /\ Len(out) > 0
  /\ out[1] = LogResult("role list result:", 500)
  /\ roles = <<>>
  /\ ~loading
====
